---------------------------- MODULE Spec2Model ----------------------------
(***************************************************************************)
(* A model of the output pipeline of the santa logging library: the        *)
(* SpinLock (locker.go), the StandardSyncer / NetworkSyncer (syncer),      *)
(* the TextSampler and Logger.output.                                      *)
(*                                                                         *)
(* The module holds several specifications over one set of variables; a    *)
(* specification leaves the components it does not exercise in their       *)
(* initial state.                                                          *)
(*   SpecLock     goroutines of TestSpinLock on one SpinLock               *)
(***************************************************************************)
EXTENDS Integers, Sequences, FiniteSets, TLC

VARIABLES
    \* ---- goroutines (SpecLock, SpecSinkConc)
    pc,          \* pc[t]: the statement goroutine t executes next
    ret,         \* ret[t]: where t continues when the lock function it is in returns
    count,       \* count[t]: the loop counter of SpinLock.Lock (kept modulo YieldPeriod)
    local,       \* local[t]: a local of t (the length read by append, a TryLock result)
    cycles,      \* cycles[t]: completed lock/append/unlock cycles of worker t
    \* ---- SpinLock
    status,      \* SpinLock.status: 0 unlocked, 1 locked, 2 suspended
    conditionL,  \* holder of SpinLock.condition.L, or None
    waiters,     \* goroutines parked in SpinLock.condition.Wait()
    holders,     \* history: goroutines whose acquire returned and that have not released
    values,      \* length of the shared slice of TestSpinLock
    \* ---- StandardSyncer
    buffer,      \* StandardSyncer.buffer: the cached bytes (empty when there is no cache)
    option,      \* the StandardSyncerOption the syncer was built from
    hasBuffer,   \* s.buffer != nil
    capacity,    \* StandardSyncer.capacity
    mutexOn,     \* s.mutex != nil
    isFile,      \* s.writer is an *os.File
    closed,      \* Close() has returned
    \* ---- the device behind s.writer
    device,      \* the bytes the device has accepted, in order
    devCalls,    \* number of Write calls the device has received
    inFlight,    \* goroutines with a device Write call in progress
    \* ---- history of the calls made on the syncer
    accepted,    \* the bytes of the Write calls that returned (len(buffer), nil), in order
    written,     \* total length of the buffers passed to Write so far
    ops,         \* number of Write and Sync calls made
    syncCalls,   \* number of Sync calls made (Close included)
    devErrSeen,  \* the device has returned an error
    lastOp,      \* what the last call did and returned
    \* ---- NetworkSyncer
    disconnected, \* NetworkSyncer.disconnected: 0 or 1
    wgCount,     \* the counter of contextWaitGroup (NetworkSyncer, StandardLogger)
    ctxDone,     \* context is cancelled (NetworkSyncer, StandardLogger)
    writer,      \* the connection s.writer refers to
    deadConns,   \* connections on which Write fails with "use of closed network connection"
    closeLog,    \* history: the connections the syncer has closed and by what, in order
    nextConn,    \* the connection the next successful dial returns
    rpc,         \* rpc[k]: the statement the k-th reconnect goroutine executes next
    rconn,       \* rconn[k]: the local connect of the k-th reconnect goroutine
    spawnCause,  \* spawnCause[k]: the connection whose failed Write started goroutine k
    \* ---- TextSampler
    sampler,     \* the TextSampler's span, tick, first and thereafter (None: no sampler)
    counters,    \* TextSampler.counters: counters[i] is the counter of index i - 1
    now,         \* the time: of the next entry (entry.Time.UnixNano(), in model units), or
                 \* of the standard logger's flush timer (in microseconds)
    sampled,     \* history: the last Sample call (entry, time, counters before, result)
    smpHist,     \* history: the Sample calls made since the sampler was built
    \* ---- Logger
    logger,      \* the Logger's level, sampler, hooks and exporters
    calls,       \* calls[t]: the output() call goroutine t is in
    pool,        \* history: entries taken from and given back to pool.entry
    sinks        \* history: sinks[j] is the number of entries exporter j has exported

None == "none"

lockVars == <<pc, ret, count, local, cycles, status, conditionL, waiters, holders, values>>

sinkVars == <<buffer, option, hasBuffer, capacity, mutexOn, isFile, closed, device, devCalls,
              inFlight, accepted, written, ops, syncCalls, devErrSeen, lastOp>>

netVars == <<disconnected, wgCount, ctxDone, writer, deadConns, closeLog, nextConn, rpc, rconn,
             spawnCause>>

\* what the actions of one component leave alone
smpVars == <<sampler, counters, now, sampled, smpHist>>

logVars == <<logger, calls, pool, sinks>>

nonLockSink == <<netVars, smpVars, logVars>>

nonLock == <<sinkVars, nonLockSink>>

nonSink == <<lockVars, nonLockSink>>

nonNet == <<count, ret, status, conditionL, waiters, holders, values, smpVars, logVars>>

vars == <<lockVars, sinkVars, netVars, smpVars, logVars>>

-----------------------------------------------------------------------------
(* Bounds and program constants *)

\* cycles each worker performs (10000 in TestSpinLock)
MaxCycles == 1

\* locker.go:70: Lock yields the scheduler unless count % 100 = 0
YieldPeriod == 100

Unlocked == 0
Locked == 1
Suspended == 2

Workers == {"w1", "w2"}
Suspender == "s"
Threads == Workers \cup {Suspender}

-----------------------------------------------------------------------------
(* SpinLock, locker.go *)

\* atomic.CompareAndSwapInt32(&l.status, old, new) succeeds iff status = old
CASMutantAlways(cur, old) == TRUE

CAS(cur, old) == cur = old

TryLockOkMutantNotLocked(cur) == cur # Locked

\* TryLock, line 59: CompareAndSwapInt32(&l.status, 0, 1) returns true iff status = 0
TryLockOk(cur) == CAS(cur, Unlocked)

\* for count := 1; ; count++   (only count % YieldPeriod is read)
NextCount(c) == (c % YieldPeriod) + 1

\* the caller enters Lock(): count := 1, continue at r when Lock returns
CallLock(t, r) ==
    /\ pc' = [pc EXCEPT ![t] = "L_cas"]
    /\ ret' = [ret EXCEPT ![t] = r]
    /\ count' = [count EXCEPT ![t] = 1]

\* Lock, lines 70-73: if (count % 100) != 0 { runtime.Gosched(); continue }
Yields(c) == (c % YieldPeriod) # 0

\* Lock, lines 66-73: the CAS; on failure Gosched and continue unless count % 100 = 0
LockCAS(t) ==
    /\ pc[t] = "L_cas"
    /\ IF CAS(status, Unlocked)
       THEN /\ status' = Locked
            /\ holders' = holders \cup {t}
            /\ pc' = [pc EXCEPT ![t] = ret[t]]
            /\ UNCHANGED count
       ELSE /\ UNCHANGED <<status, holders>>
            /\ IF Yields(count[t])
               THEN /\ count' = [count EXCEPT ![t] = NextCount(count[t])]
                    /\ UNCHANGED pc
               ELSE /\ pc' = [pc EXCEPT ![t] = "L_condlock"]
                    /\ UNCHANGED count
    /\ UNCHANGED <<ret, local, cycles, conditionL, waiters, values, nonLock>>

\* Lock, line 75: l.condition.L.Lock()
LockCondLock(t) ==
    /\ pc[t] = "L_condlock"
    /\ conditionL = None
    /\ conditionL' = t
    /\ pc' = [pc EXCEPT ![t] = "L_load"]
    /\ UNCHANGED <<ret, count, local, cycles, status, waiters, holders, values, nonLock>>

ParkStatusMutantAny(cur) == TRUE

\* the status Lock parks against
ParkStatus(cur) == cur = Suspended

\* Lock, lines 77-79: if LoadInt32(&l.status) == 2 { l.condition.Wait() }
\* Wait unlocks condition.L and parks the goroutine in one step.
LockLoad(t) ==
    /\ pc[t] = "L_load"
    /\ IF ParkStatus(status)
       THEN /\ conditionL' = None
            /\ waiters' = waiters \cup {t}
            /\ pc' = [pc EXCEPT ![t] = "L_wait"]
       ELSE /\ pc' = [pc EXCEPT ![t] = "L_condunlock"]
            /\ UNCHANGED <<conditionL, waiters>>
    /\ UNCHANGED <<ret, count, local, cycles, status, holders, values, nonLock>>

\* Wait returns: the goroutine was woken by Broadcast and locks condition.L again
LockWake(t) ==
    /\ pc[t] = "L_wait"
    /\ t \notin waiters
    /\ conditionL = None
    /\ conditionL' = t
    /\ pc' = [pc EXCEPT ![t] = "L_condunlock"]
    /\ UNCHANGED <<ret, count, local, cycles, status, waiters, holders, values, nonLock>>

\* Lock, line 81: l.condition.L.Unlock(), then count++ and the next round
LockCondUnlock(t) ==
    /\ pc[t] = "L_condunlock"
    /\ conditionL' = None
    /\ count' = [count EXCEPT ![t] = NextCount(count[t])]
    /\ pc' = [pc EXCEPT ![t] = "L_cas"]
    /\ UNCHANGED <<ret, local, cycles, status, waiters, holders, values, nonLock>>

\* the caller enters LockAndSuspend()
CallLockAndSuspend(t, r) ==
    /\ pc' = [pc EXCEPT ![t] = "LS_cas"]
    /\ ret' = [ret EXCEPT ![t] = r]

\* LockAndSuspend, lines 93-99: CAS 0 -> 2, Gosched on failure
LockAndSuspendCAS(t) ==
    /\ pc[t] = "LS_cas"
    /\ IF CAS(status, Unlocked)
       THEN /\ status' = Suspended
            /\ holders' = holders \cup {t}
            /\ pc' = [pc EXCEPT ![t] = ret[t]]
       ELSE UNCHANGED <<status, holders, pc>>
    /\ UNCHANGED <<ret, count, local, cycles, conditionL, waiters, values, nonLock>>

\* the caller enters UnlockAndResume()
CallUnlockAndResume(t, r) ==
    /\ pc' = [pc EXCEPT ![t] = "UR_condlock"]
    /\ ret' = [ret EXCEPT ![t] = r]

\* UnlockAndResume, line 105: l.condition.L.Lock()
ResumeCondLock(t) ==
    /\ pc[t] = "UR_condlock"
    /\ conditionL = None
    /\ conditionL' = t
    /\ pc' = [pc EXCEPT ![t] = "UR_cas"]
    /\ UNCHANGED <<ret, count, local, cycles, status, waiters, holders, values, nonLock>>

\* UnlockAndResume, line 107: CompareAndSwapInt32(&l.status, 2, 0)
ResumeCAS(t) ==
    /\ pc[t] = "UR_cas"
    /\ IF CAS(status, Suspended)
       THEN /\ status' = Unlocked
            /\ holders' = holders \ {t}
            /\ pc' = [pc EXCEPT ![t] = "UR_broadcast"]
       ELSE /\ pc' = [pc EXCEPT ![t] = "UR_condunlock"]
            /\ UNCHANGED <<status, holders>>
    /\ UNCHANGED <<ret, count, local, cycles, conditionL, waiters, values, nonLock>>

\* UnlockAndResume, line 108: l.condition.Broadcast() wakes every parked goroutine
ResumeBroadcast(t) ==
    /\ pc[t] = "UR_broadcast"
    /\ waiters' = {}
    /\ pc' = [pc EXCEPT ![t] = "UR_condunlock"]
    /\ UNCHANGED <<ret, count, local, cycles, status, conditionL, holders, values, nonLock>>

\* UnlockAndResume, line 111: l.condition.L.Unlock(), and the function returns
ResumeCondUnlock(t) ==
    /\ pc[t] = "UR_condunlock"
    /\ conditionL' = None
    /\ pc' = [pc EXCEPT ![t] = ret[t]]
    /\ UNCHANGED <<ret, count, local, cycles, status, waiters, holders, values, nonLock>>

\* the steps inside the lock's functions, for any goroutine
LockStep(t) ==
    \/ LockCAS(t)
    \/ LockCondLock(t)
    \/ LockLoad(t)
    \/ LockWake(t)
    \/ LockCondUnlock(t)
    \/ LockAndSuspendCAS(t)
    \/ ResumeCondLock(t)
    \/ ResumeCAS(t)
    \/ ResumeBroadcast(t)
    \/ ResumeCondUnlock(t)

-----------------------------------------------------------------------------
(* TestSpinLock, locker_test.go: the goroutines that use the lock *)

\* handler, lines 42-44: the next cycle calls locker.Lock()
WorkerLock(t) ==
    /\ pc[t] = "w_start"
    /\ cycles[t] < MaxCycles
    /\ CallLock(t, "w_read")
    /\ UNCHANGED <<local, cycles, status, conditionL, waiters, holders, values, nonLock>>

\* a caller that tries the fast path first: TryLock(), and Lock() when it fails
WorkerTryLock(t) ==
    /\ pc[t] = "w_start"
    /\ cycles[t] < MaxCycles
    /\ IF TryLockOk(status)
       THEN /\ status' = Locked
            /\ holders' = holders \cup {t}
            /\ pc' = [pc EXCEPT ![t] = "w_read"]
            /\ UNCHANGED <<ret, count>>
       ELSE /\ CallLock(t, "w_read")
            /\ UNCHANGED <<status, holders>>
    /\ UNCHANGED <<local, cycles, conditionL, waiters, values, nonLock>>

\* handler, line 40: the loop ends after MaxCycles cycles
WorkerDone(t) ==
    /\ pc[t] = "w_start"
    /\ cycles[t] = MaxCycles
    /\ pc' = [pc EXCEPT ![t] = "done"]
    /\ UNCHANGED <<ret, count, local, cycles, status, conditionL, waiters, holders, values, nonLock>>

\* handler, line 43: values = append(values, 1) reads the slice ...
WorkerRead(t) ==
    /\ pc[t] = "w_read"
    /\ local' = [local EXCEPT ![t] = values]
    /\ pc' = [pc EXCEPT ![t] = "w_write"]
    /\ UNCHANGED <<ret, count, cycles, status, conditionL, waiters, holders, values, nonLock>>

\* ... and stores the slice grown by one element
WorkerWrite(t) ==
    /\ pc[t] = "w_write"
    /\ values' = local[t] + 1
    /\ pc' = [pc EXCEPT ![t] = "w_unlock"]
    /\ UNCHANGED <<ret, count, local, cycles, status, conditionL, waiters, holders, nonLock>>

\* handler, line 44 and Unlock, line 87: atomic.StoreInt32(&l.status, 0)
WorkerUnlock(t) ==
    /\ pc[t] = "w_unlock"
    /\ status' = Unlocked
    /\ holders' = holders \ {t}
    /\ cycles' = [cycles EXCEPT ![t] = cycles[t] + 1]
    /\ pc' = [pc EXCEPT ![t] = "w_start"]
    /\ UNCHANGED <<ret, count, local, conditionL, waiters, values, nonLock>>

\* locker_test.go:57: locker.LockAndSuspend()
SuspenderStart(t) ==
    /\ pc[t] = "s_start"
    /\ CallLockAndSuspend(t, "s_try")
    /\ UNCHANGED <<count, local, cycles, status, conditionL, waiters, holders, values, nonLock>>

\* locker_test.go:59: assert.False(t, locker.TryLock()); local keeps the result
SuspenderTry(t) ==
    /\ pc[t] = "s_try"
    /\ local' = [local EXCEPT ![t] = IF TryLockOk(status) THEN 1 ELSE 0]
    /\ status' = IF TryLockOk(status) THEN Locked ELSE status
    /\ pc' = [pc EXCEPT ![t] = "s_sleep"]
    /\ UNCHANGED <<ret, count, cycles, conditionL, waiters, holders, values, nonLock>>

\* locker_test.go:60-62: after the sleep, locker.UnlockAndResume()
SuspenderResume(t) ==
    /\ pc[t] = "s_sleep"
    /\ CallUnlockAndResume(t, "done")
    /\ UNCHANGED <<count, local, cycles, status, conditionL, waiters, holders, values, nonLock>>

WorkerStep(t) ==
    \/ WorkerLock(t)
    \/ WorkerTryLock(t)
    \/ WorkerDone(t)
    \/ WorkerRead(t)
    \/ WorkerWrite(t)
    \/ WorkerUnlock(t)

SuspenderStep(t) ==
    \/ SuspenderStart(t)
    \/ SuspenderTry(t)
    \/ SuspenderResume(t)

-----------------------------------------------------------------------------
(* Byte strings.  A byte string is a sequence of segments [id, off, len]:    *)
(* bytes off .. off+len-1 of the buffer passed to the Write call number id.  *)
(* Segments are never empty and adjacent segments of one buffer are merged,  *)
(* so two byte strings are equal iff they hold the same bytes in the same    *)
(* order.                                                                    *)

Seg(id, off, len) == [id |-> id, off |-> off, len |-> len]

\* the buffer passed to Write call number id: n bytes
NewBytes(id, n) == IF n = 0 THEN <<>> ELSE <<Seg(id, 0, n)>>

RECURSIVE Bytes(_)
\* len(b)
Bytes(b) == IF b = <<>> THEN 0 ELSE Head(b).len + Bytes(Tail(b))

\* append(a, b...)
Cat(a, b) ==
    IF a = <<>> THEN b
    ELSE IF b = <<>> THEN a
    ELSE LET x == a[Len(a)]
             y == Head(b)
         IN IF x.id = y.id /\ x.off + x.len = y.off
            THEN SubSeq(a, 1, Len(a) - 1) \o <<Seg(x.id, x.off, x.len + y.len)>> \o Tail(b)
            ELSE a \o b

RECURSIVE Drop(_, _)
\* b[n:]
Drop(b, n) ==
    IF n = 0 \/ b = <<>> THEN b
    ELSE IF n >= Head(b).len THEN Drop(Tail(b), n - Head(b).len)
    ELSE <<Seg(Head(b).id, Head(b).off + n, Head(b).len - n)>> \o Tail(b)

RECURSIVE Take(_, _)
\* b[:n]
Take(b, n) ==
    IF n = 0 \/ b = <<>> THEN <<>>
    ELSE IF n >= Head(b).len THEN <<Head(b)>> \o Take(Tail(b), n - Head(b).len)
    ELSE <<Seg(Head(b).id, Head(b).off, n)>>

-----------------------------------------------------------------------------
(* The device behind s.writer (an io.Writer) *)

DevErrors == {"EIO", "ENOSPC"}

\* the byte counts a failing device Write of L bytes may report
PartialSizes(L) == {x \in {0, 1, L - 1, L} : 0 <= x /\ x <= L}

\* what writer.Write(p) with len(p) = L may return: (L, nil), or an error after
\* the first size bytes were accepted
Outcomes(L) ==
    {[size |-> L, err |-> None]}
        \cup {[size |-> x, err |-> e] : x \in PartialSizes(L), e \in DevErrors}

\* the outcomes that are read when no device call is made
NoCall == {[size |-> 0, err |-> None]}

-----------------------------------------------------------------------------
(* StandardSyncer, src/unnamed/part_000 *)

\* the smallest capacity of a cache, part_000:295-296
MinCapacity == 1024

\* StandardSyncerOption.Build, lines 294-304: the capacity stored in the syncer
BuildCapacity(cacheCapacity, disableMutex) ==
    IF ~disableMutex /\ cacheCapacity < MinCapacity /\ cacheCapacity > 0
    THEN MinCapacity
    ELSE cacheCapacity

BuildHasBufferMutantAnyLock(cacheCapacity, disableMutex) == cacheCapacity > 0

\* StandardSyncerOption.Build, lines 294-301: whether a cache is made
BuildHasBuffer(cacheCapacity, disableMutex) ==
    ~disableMutex /\ BuildCapacity(cacheCapacity, disableMutex) > 0

NeedFlushMutantAlways(cacheLen, n, cap) == TRUE

\* Write, line 168: (len(s.buffer) + len(buffer)) >= s.capacity
NeedFlush(cacheLen, n, cap) == cacheLen + n >= cap

FlushKeepMutantDropAll(b, out) == <<>>

FlushKeepMutantKeepAll(b, out) == IF out.err # None THEN b ELSE <<>>

\* flush, lines 141-152: the cache after writer.Write(s.buffer) returned out
FlushKeep(b, out) ==
    IF out.err # None
    THEN IF out.size > 0 THEN Drop(b, out.size) ELSE b
    ELSE <<>>

\* the bytes a device Write of p hands to the device when it returns out
DevAccepts(p, out) == Take(p, out.size)

SyncFlushMutantNever(cacheLen) == FALSE

\* Sync, line 208: len(s.buffer) > 0
SyncFlush(cacheLen) == cacheLen > 0

\* the record of a call: what it was given, what the device did, what it returned
OpRecord(op, size, pre, called, out, n, err) ==
    [op |-> op, size |-> size, preBuffer |-> pre, devCalled |-> called,
     devSize |-> out.size, devErr |-> out.err, n |-> n, err |-> err]

NoOp == OpRecord("none", 0, <<>>, FALSE, [size |-> 0, err |-> None], 0, None)

WriteSizes == {1, 424, 600}

\* calls made on one syncer before it is closed
MaxOps == 3

\* Write, lines 167-168 and 189: whether Write calls the device (to flush the
\* cache, or to write through when there is no cache)
WriteCalled(n) == ~hasBuffer \/ NeedFlush(Bytes(buffer), n, capacity)

\* the bytes Write hands to the device: the cache (flush), or its argument
WriteSent(id, n) == IF hasBuffer THEN buffer ELSE NewBytes(id, n)

\* Write, lines 176, 186 and 195: the count Write returns
WriteCount(n, out) ==
    IF hasBuffer THEN (IF out.err # None THEN 0 ELSE n) ELSE out.size

\* the body of StandardSyncer.Write, lines 167-195, for the buffer number id of
\* n bytes; out is what the device returns if it is called
StdWrite(id, n, out) ==
    LET called == WriteCalled(n)
        new == NewBytes(id, n)
        kept == IF hasBuffer /\ called THEN FlushKeep(buffer, out) ELSE buffer
        rn == WriteCount(n, out)
        ok == rn = n /\ out.err = None
    IN /\ buffer' = IF hasBuffer /\ out.err = None THEN Cat(kept, new) ELSE kept
       /\ device' = IF called THEN Cat(device, DevAccepts(WriteSent(id, n), out)) ELSE device
       /\ devCalls' = IF called THEN devCalls + 1 ELSE devCalls
       /\ devErrSeen' = (devErrSeen \/ out.err # None)
       /\ accepted' = IF ok THEN Cat(accepted, new) ELSE accepted
       /\ written' = written + n
       /\ lastOp' = OpRecord("write", n, buffer, called, out, rn, out.err)

\* StandardSyncer.Write, lines 162-196, by a single caller (Lock and Unlock of
\* an uncontended mutex leave status as it was)
SyncerWrite ==
    /\ ~closed
    /\ ops < MaxOps
    /\ \E n \in WriteSizes :
         \E out \in (IF WriteCalled(n) THEN Outcomes(Bytes(WriteSent(ops + 1, n))) ELSE NoCall) :
            StdWrite(ops + 1, n, out)
    /\ ops' = ops + 1
    /\ UNCHANGED <<option, hasBuffer, capacity, mutexOn, isFile, closed, inFlight, syncCalls, nonSink>>

\* the body of Sync, lines 208-236: the flush, then handle.Sync() on a file.
\* out is what the device Write returns, ferr what handle.Sync() returns.
SyncBody(op, out, ferr) ==
    LET flush == SyncFlush(Bytes(buffer))
        err == IF flush /\ out.err # None THEN out.err
               ELSE IF isFile THEN ferr ELSE None
    IN /\ buffer' = IF flush THEN FlushKeep(buffer, out) ELSE buffer
       /\ device' = IF flush THEN Cat(device, DevAccepts(buffer, out)) ELSE device
       /\ devCalls' = IF flush THEN devCalls + 1 ELSE devCalls
       /\ devErrSeen' = (devErrSeen \/ (flush /\ out.err # None))
       /\ syncCalls' = syncCalls + 1
       \* Close, lines 244-247: _ = s.Sync(); return nil
       /\ lastOp' = OpRecord(op, 0, buffer, flush, out, 0, IF op = "close" THEN None ELSE err)

\* StandardSyncer.Sync, lines 203-237, by a single caller
SyncerSync ==
    /\ ~closed
    /\ ops < MaxOps
    /\ \E out \in (IF SyncFlush(Bytes(buffer)) THEN Outcomes(Bytes(buffer)) ELSE NoCall) :
         \E ferr \in (IF isFile THEN DevErrors \cup {None} ELSE {None}) :
            SyncBody("sync", out, ferr)
    /\ ops' = ops + 1
    /\ UNCHANGED <<option, hasBuffer, capacity, mutexOn, isFile, closed, inFlight, accepted, written,
                   nonSink>>

\* StandardSyncer.Close, lines 244-247
SyncerClose ==
    /\ ~closed
    /\ \E out \in (IF SyncFlush(Bytes(buffer)) THEN Outcomes(Bytes(buffer)) ELSE NoCall) :
         \E ferr \in (IF isFile THEN DevErrors \cup {None} ELSE {None}) :
            SyncBody("close", out, ferr)
    /\ closed' = TRUE
    /\ UNCHANGED <<option, hasBuffer, capacity, mutexOn, isFile, inFlight, accepted, written, ops,
                   nonSink>>

\* the values of the option CacheCapacity that are tried
CacheCapacities == {-1, 0, 1, 1023, 1024, 1100}

\* the state of a syncer built by StandardSyncerOption.Build, lines 290-312
Built(cacheCapacity, disableMutex, file) ==
    /\ buffer = <<>>
    /\ option = [cacheCapacity |-> cacheCapacity, disableMutex |-> disableMutex]
    /\ hasBuffer = BuildHasBuffer(cacheCapacity, disableMutex)
    /\ capacity = BuildCapacity(cacheCapacity, disableMutex)
    /\ mutexOn = ~disableMutex
    /\ isFile = file
    /\ closed = FALSE
    /\ device = <<>>
    /\ devCalls = 0
    /\ inFlight = {}
    /\ accepted = <<>>
    /\ written = 0
    /\ ops = 0
    /\ syncCalls = 0
    /\ devErrSeen = FALSE
    /\ lastOp = NoOp

\* a syncer no goroutine uses
InitSinkIdle == Built(0, FALSE, FALSE)

\* NetworkSyncerOption.Build, lines 607-617: the connection dialed by Build is
\* connection 0, the context is not cancelled, no reconnect goroutine runs
InitNetState ==
    /\ disconnected = 0
    /\ wgCount = 0
    /\ ctxDone = FALSE
    /\ writer = 0
    /\ deadConns = {}
    /\ closeLog = <<>>
    /\ nextConn = 1
    /\ rpc = <<>>
    /\ rconn = <<>>
    /\ spawnCause = <<>>

\* no goroutine runs
NoThreads == [t \in {} |-> 0]

\* no text sampler was built
InitSamplerIdle ==
    /\ sampler = None
    /\ counters = <<>>
    /\ now = 1
    /\ sampled = None
    /\ smpHist = None

\* no logger was built
InitLoggerIdle ==
    /\ logger = None
    /\ calls = NoThreads
    /\ pool = 0
    /\ sinks = <<>>

InitLockIdle ==
    /\ pc = NoThreads
    /\ ret = NoThreads
    /\ count = NoThreads
    /\ local = NoThreads
    /\ cycles = NoThreads
    /\ status = Unlocked
    /\ conditionL = None
    /\ waiters = {}
    /\ holders = {}
    /\ values = 0

InitSink ==
    /\ \E c \in CacheCapacities, d \in BOOLEAN, f \in BOOLEAN : Built(c, d, f)
    /\ InitLockIdle
    /\ InitNetState
    /\ InitSamplerIdle
    /\ InitLoggerIdle

NextSink ==
    \/ SyncerWrite
    \/ SyncerSync
    \/ SyncerClose

SpecSink == InitSink /\ [][NextSink]_vars

-----------------------------------------------------------------------------
(* StandardSyncer under concurrent callers: Write and Sync statement by      *)
(* statement, each goroutine going through the syncer's SpinLock            *)

Writers == {"a", "b"}
Syncers == {"y"}
SinkThreads == Writers \cup Syncers

\* the buffer goroutine t passes to Write: its number and its length
WriteId(t) == IF t = "a" THEN 1 ELSE 2

WriteLen(t) == IF t = "a" THEN 600 ELSE 424

\* what the device returns in the concurrent runs: success, or one failure
ConcOutcomes(L) == {o \in Outcomes(L) : o.err = None \/ (o.err = "EIO" /\ o.size = 0)}

\* a Write that does not take the mutex
WriteCallMutantNoLock(t) ==
    /\ pc[t] = "wr_start"
    /\ pc' = [pc EXCEPT ![t] = "wr_body"]
    /\ written' = written + WriteLen(t)
    /\ UNCHANGED <<ret, count, local, cycles, status, conditionL, waiters, holders, values, nonLockSink>>
    /\ UNCHANGED <<buffer, option, hasBuffer, capacity, mutexOn, isFile, closed, device, devCalls,
                   inFlight, accepted, ops, syncCalls, devErrSeen, lastOp>>

\* Write, lines 163-165: if s.mutex != nil { s.mutex.Lock() }
WriteCall(t) ==
    /\ pc[t] = "wr_start"
    /\ IF mutexOn
       THEN CallLock(t, "wr_body")
       ELSE /\ pc' = [pc EXCEPT ![t] = "wr_body"]
            /\ UNCHANGED <<ret, count>>
    /\ written' = written + WriteLen(t)
    /\ UNCHANGED <<local, cycles, status, conditionL, waiters, holders, values, nonLockSink>>
    /\ UNCHANGED <<buffer, option, hasBuffer, capacity, mutexOn, isFile, closed, device, devCalls,
                   inFlight, accepted, ops, syncCalls, devErrSeen, lastOp>>

\* Write, lines 167-169 and 189: the branch taken; a device Write call starts
\* when the cache is flushed or when there is no cache
WriteBody(t) ==
    /\ pc[t] = "wr_body"
    /\ IF hasBuffer
       THEN IF NeedFlush(Bytes(buffer), WriteLen(t), capacity)
            THEN /\ pc' = [pc EXCEPT ![t] = "wr_flush"]
                 /\ inFlight' = inFlight \cup {t}
            ELSE /\ pc' = [pc EXCEPT ![t] = "wr_append"]
                 /\ UNCHANGED inFlight
       ELSE /\ pc' = [pc EXCEPT ![t] = "wr_direct"]
            /\ inFlight' = inFlight \cup {t}
    /\ UNCHANGED <<ret, count, local, cycles, status, conditionL, waiters, holders, values, nonLockSink>>
    /\ UNCHANGED <<buffer, option, hasBuffer, capacity, mutexOn, isFile, closed, device, devCalls,
                   accepted, written, ops, syncCalls, devErrSeen, lastOp>>

\* a flush whose error makes the caller return at once
FlushReturnsMutantBareReturn(t, okPc, errPc) ==
    \E out \in ConcOutcomes(Bytes(buffer)) :
        /\ buffer' = FlushKeep(buffer, out)
        /\ device' = Cat(device, DevAccepts(buffer, out))
        /\ devCalls' = devCalls + 1
        /\ devErrSeen' = (devErrSeen \/ out.err # None)
        /\ inFlight' = inFlight \ {t}
        /\ pc' = [pc EXCEPT ![t] = IF out.err # None THEN "done" ELSE okPc]

\* flush, lines 141-152, when the device Write returns; t continues at okPc, or
\* at errPc when the device returned an error
FlushReturns(t, okPc, errPc) ==
    \E out \in ConcOutcomes(Bytes(buffer)) :
        /\ buffer' = FlushKeep(buffer, out)
        /\ device' = Cat(device, DevAccepts(buffer, out))
        /\ devCalls' = devCalls + 1
        /\ devErrSeen' = (devErrSeen \/ out.err # None)
        /\ inFlight' = inFlight \ {t}
        /\ pc' = [pc EXCEPT ![t] = IF out.err # None THEN errPc ELSE okPc]

\* Write, lines 169-177: the flush returns; on an error Write unlocks and returns
WriteFlushEnd(t) ==
    /\ pc[t] = "wr_flush"
    /\ FlushReturns(t, "wr_append", "wr_unlock")
    /\ UNCHANGED <<ret, count, local, cycles, status, conditionL, waiters, holders, values, nonLockSink>>
    /\ UNCHANGED <<option, hasBuffer, capacity, mutexOn, isFile, closed, accepted, written, ops,
                   syncCalls, lastOp>>

\* Write, line 180: s.buffer = append(s.buffer, buffer...)
WriteAppend(t) ==
    /\ pc[t] = "wr_append"
    /\ buffer' = Cat(buffer, NewBytes(WriteId(t), WriteLen(t)))
    /\ accepted' = Cat(accepted, NewBytes(WriteId(t), WriteLen(t)))
    /\ pc' = [pc EXCEPT ![t] = "wr_unlock"]
    /\ UNCHANGED <<ret, count, local, cycles, status, conditionL, waiters, holders, values, nonLockSink>>
    /\ UNCHANGED <<option, hasBuffer, capacity, mutexOn, isFile, closed, device, devCalls, inFlight,
                   written, ops, syncCalls, devErrSeen, lastOp>>

\* Write, line 189: size, err := s.writer.Write(buffer) returns
WriteDirectEnd(t) ==
    /\ pc[t] = "wr_direct"
    /\ \E out \in ConcOutcomes(WriteLen(t)) :
         LET new == NewBytes(WriteId(t), WriteLen(t))
         IN /\ device' = Cat(device, DevAccepts(new, out))
            /\ devErrSeen' = (devErrSeen \/ out.err # None)
            /\ accepted' = IF out.err = None THEN Cat(accepted, new) ELSE accepted
    /\ devCalls' = devCalls + 1
    /\ inFlight' = inFlight \ {t}
    /\ pc' = [pc EXCEPT ![t] = "wr_unlock"]
    /\ UNCHANGED <<ret, count, local, cycles, status, conditionL, waiters, holders, values, nonLockSink>>
    /\ UNCHANGED <<buffer, option, hasBuffer, capacity, mutexOn, isFile, closed, written, ops,
                   syncCalls, lastOp>>

\* Write, lines 172-174, 182-184 and 191-193: if s.mutex != nil { s.mutex.Unlock() }
WriteUnlock(t) ==
    /\ pc[t] = "wr_unlock"
    /\ IF mutexOn
       THEN /\ status' = Unlocked
            /\ holders' = holders \ {t}
       ELSE UNCHANGED <<status, holders>>
    /\ pc' = [pc EXCEPT ![t] = "done"]
    /\ UNCHANGED <<ret, count, local, cycles, conditionL, waiters, values, sinkVars, nonLockSink>>

\* Sync, lines 204-206: if s.mutex != nil { s.mutex.LockAndSuspend() }
SyncCall(t) ==
    /\ pc[t] = "sy_start"
    /\ IF mutexOn
       THEN CallLockAndSuspend(t, "sy_body")
       ELSE /\ pc' = [pc EXCEPT ![t] = "sy_body"]
            /\ UNCHANGED ret
    /\ syncCalls' = syncCalls + 1
    /\ UNCHANGED <<count, local, cycles, status, conditionL, waiters, holders, values, nonLockSink>>
    /\ UNCHANGED <<buffer, option, hasBuffer, capacity, mutexOn, isFile, closed, device, devCalls,
                   inFlight, accepted, written, ops, devErrSeen, lastOp>>

\* Sync, lines 208-209: the flush starts if the cache holds bytes
SyncBodyStart(t) ==
    /\ pc[t] = "sy_body"
    /\ IF SyncFlush(Bytes(buffer))
       THEN /\ pc' = [pc EXCEPT ![t] = "sy_flush"]
            /\ inFlight' = inFlight \cup {t}
       ELSE /\ pc' = [pc EXCEPT ![t] = IF isFile THEN "sy_file" ELSE "sy_resume"]
            /\ UNCHANGED inFlight
    /\ UNCHANGED <<ret, count, local, cycles, status, conditionL, waiters, holders, values, nonLockSink>>
    /\ UNCHANGED <<buffer, option, hasBuffer, capacity, mutexOn, isFile, closed, device, devCalls,
                   accepted, written, ops, syncCalls, devErrSeen, lastOp>>

\* Sync, lines 209-217: the flush returns; on an error Sync resumes and returns
SyncFlushEnd(t) ==
    /\ pc[t] = "sy_flush"
    /\ FlushReturns(t, IF isFile THEN "sy_file" ELSE "sy_resume", "sy_resume")
    /\ UNCHANGED <<ret, count, local, cycles, status, conditionL, waiters, holders, values, nonLockSink>>
    /\ UNCHANGED <<option, hasBuffer, capacity, mutexOn, isFile, closed, accepted, written, ops,
                   syncCalls, lastOp>>

\* Sync, lines 220-230: handle.Sync() when the writer is a file (it changes
\* nothing the syncer holds)
SyncFile(t) ==
    /\ pc[t] = "sy_file"
    /\ pc' = [pc EXCEPT ![t] = "sy_resume"]
    /\ UNCHANGED <<ret, count, local, cycles, status, conditionL, waiters, holders, values,
                   sinkVars, nonLockSink>>

\* Sync, lines 212-214, 223-225 and 232-234: if s.mutex != nil { s.mutex.UnlockAndResume() }
SyncResume(t) ==
    /\ pc[t] = "sy_resume"
    /\ IF mutexOn
       THEN CallUnlockAndResume(t, "done")
       ELSE /\ pc' = [pc EXCEPT ![t] = "done"]
            /\ UNCHANGED ret
    /\ UNCHANGED <<count, local, cycles, status, conditionL, waiters, holders, values,
                   sinkVars, nonLockSink>>

WriterStep(t) ==
    \/ WriteCall(t)
    \/ WriteBody(t)
    \/ WriteFlushEnd(t)
    \/ WriteAppend(t)
    \/ WriteDirectEnd(t)
    \/ WriteUnlock(t)

SyncerStep(t) ==
    \/ SyncCall(t)
    \/ SyncBodyStart(t)
    \/ SyncFlushEnd(t)
    \/ SyncFile(t)
    \/ SyncResume(t)

\* a syncer built with its mutex, either without a cache on a file (as in
\* TestStandardSyncerOption) or with a cache of 1024 bytes on another writer,
\* and one goroutine per call
InitSinkConc ==
    /\ (Built(0, FALSE, TRUE) \/ Built(MinCapacity, FALSE, FALSE))
    /\ pc = [t \in SinkThreads |-> IF t \in Writers THEN "wr_start" ELSE "sy_start"]
    /\ ret = [t \in SinkThreads |-> "done"]
    /\ count = [t \in SinkThreads |-> 1]
    /\ local = [t \in SinkThreads |-> 0]
    /\ cycles = [t \in SinkThreads |-> 0]
    /\ status = Unlocked
    /\ conditionL = None
    /\ waiters = {}
    /\ holders = {}
    /\ values = 0
    /\ InitNetState
    /\ InitSamplerIdle
    /\ InitLoggerIdle

NextSinkConc ==
    \/ \E t \in SinkThreads : LockStep(t)
    \/ \E t \in Writers : WriterStep(t)
    \/ \E t \in Syncers : SyncerStep(t)

SpecSinkConc == InitSinkConc /\ [][NextSinkConc]_vars

-----------------------------------------------------------------------------
(* NetworkSyncer, src/unnamed/part_000 lines 428-513 *)

NetWriters == {"n1", "n2"}
Closer == "c"

\* a goroutine that makes its Write calls alone, with buffers of either length
Solo == "n0"
SoloSizes == {424, 600}
NetThreads == NetWriters \cup {Solo, Closer}

\* Write calls each goroutine makes on the network syncer
MaxNetWrites == 2

\* the reconnect goroutines the Write calls can start, numbered in the order of
\* their go statements: each call starts at most one
TaskIds == 1..(Cardinality(NetWriters) * MaxNetWrites)

\* Write calls the goroutine Solo makes
MaxSoloWrites == 3

\* the Write calls goroutine t makes, and the lengths of the buffers it passes
NetWriteLimit(t) == IF t = Solo THEN MaxSoloWrites ELSE MaxNetWrites
NetWriteSizes(t) == IF t = Solo THEN SoloSizes ELSE {WriteLen(t)}

\* the error text NetworkSyncer.Write looks for, line 489
ErrClosed == "use of closed network connection"

IsClosedErrMutantAny(e) == e # None

\* Write, lines 488-489: err != nil && strings.Contains(err.Error(), ...)
IsClosedErr(e) == e # None /\ e = ErrClosed

\* what a Write on the connection s.writer returns: the closed-connection error
\* once the connection was closed, else success or another I/O error
NetOutcomes(L) ==
    IF writer \in deadConns
    THEN {[size |-> 0, err |-> ErrClosed]}
    ELSE {[size |-> L, err |-> None], [size |-> 0, err |-> "EIO"]}

\* the connection behind s.writer is closed under the syncer (by the peer or
\* otherwise invalidated): from now on a Write on it returns ErrClosed
ConnInvalidate ==
    /\ writer \notin deadConns
    /\ deadConns' = deadConns \cup {writer}
    /\ UNCHANGED <<disconnected, wgCount, ctxDone, writer, closeLog, nextConn, rpc, rconn, spawnCause>>
    /\ UNCHANGED <<pc, local, cycles, sinkVars, nonNet>>

\* the syncer is disconnected: the flag is set and the connection s.writer
\* refers to is closed
Disconnected == disconnected = 1 /\ writer \in deadConns

\* NetworkSyncer.Write, line 486: size, err := s.StandardSyncer.Write(buffer),
\* the body of which runs under the syncer's mutex; local keeps err and the
\* connection the call was made on, whether the syncer was disconnected, and (for
\* the record of spawns) how many reconnections had been started when the call
\* began
NetWriteCall(t) ==
    /\ pc[t] = "nw_start"
    /\ cycles[t] < NetWriteLimit(t)
    /\ ~closed
    /\ \E n \in NetWriteSizes(t) :
          \E out \in (IF WriteCalled(n) THEN NetOutcomes(Bytes(WriteSent(ops + 1, n)))
                      ELSE NoCall) :
            /\ StdWrite(ops + 1, n, out)
            /\ local' = [local EXCEPT ![t] = [err |-> out.err, conn |-> writer,
                                            seen |-> Len(spawnCause),
                                            down |-> Disconnected]]
    /\ ops' = ops + 1
    /\ pc' = [pc EXCEPT ![t] = "nw_check"]
    /\ UNCHANGED <<option, hasBuffer, capacity, mutexOn, isFile, closed, inFlight, syncCalls>>
    /\ UNCHANGED <<cycles, netVars, nonNet>>

\* Write, lines 488-493 and 500: on a closed-connection error the CAS of
\* disconnected from 0 to 1; the winner goes on to start the reconnection, every
\* other call returns
NetWriteCheck(t) ==
    /\ pc[t] = "nw_check"
    /\ IF IsClosedErr(local[t].err) /\ CAS(disconnected, 0)
       THEN /\ disconnected' = 1
            /\ pc' = [pc EXCEPT ![t] = "nw_add"]
            /\ UNCHANGED cycles
       ELSE /\ pc' = [pc EXCEPT ![t] = "nw_start"]
            /\ cycles' = [cycles EXCEPT ![t] = cycles[t] + 1]
            /\ UNCHANGED disconnected
    /\ UNCHANGED <<wgCount, ctxDone, writer, deadConns, closeLog, nextConn, rpc, rconn, spawnCause>>
    /\ UNCHANGED <<local, sinkVars, nonNet>>

\* Write, line 494: s.contextWaitGroup.Add(1)
NetWriteAdd(t) ==
    /\ pc[t] = "nw_add"
    /\ wgCount' = wgCount + 1
    /\ pc' = [pc EXCEPT ![t] = "nw_go"]
    /\ UNCHANGED <<disconnected, ctxDone, writer, deadConns, closeLog, nextConn, rpc, rconn, spawnCause>>
    /\ UNCHANGED <<local, cycles, sinkVars, nonNet>>

\* Write, lines 495 and 500: go s.reconnect(), and Write returns
NetWriteGo(t) ==
    /\ pc[t] = "nw_go"
    /\ rpc' = Append(rpc, "dial")
    /\ rconn' = Append(rconn, writer)
    /\ spawnCause' = Append(spawnCause, [conn |-> local[t].conn, seen |-> local[t].seen])
    /\ pc' = [pc EXCEPT ![t] = "nw_start"]
    /\ cycles' = [cycles EXCEPT ![t] = cycles[t] + 1]
    /\ UNCHANGED <<disconnected, wgCount, ctxDone, writer, deadConns, closeLog, nextConn>>
    /\ UNCHANGED <<local, sinkVars, nonNet>>

AfterDialFailureMutantGiveUp(done) == "deferred"

\* reconnect, lines 451-466: after a failed dial the goroutine returns if
\* s.context.Err() != nil, and goes to the select otherwise
AfterDialFailure(done) == IF done THEN "deferred" ELSE "wait"

\* reconnect, lines 449-457: DialContext returns.  It succeeds only while the
\* context is not cancelled; after a failure the goroutine returns if the
\* context is cancelled and waits otherwise
ReconnectDial(k) ==
    /\ k <= Len(rpc)
    /\ rpc[k] = "dial"
    /\ \/ /\ ~ctxDone
          /\ rconn' = [rconn EXCEPT ![k] = nextConn]
          /\ nextConn' = nextConn + 1
          /\ rpc' = [rpc EXCEPT ![k] = "close_old"]
       \/ /\ rpc' = [rpc EXCEPT ![k] = AfterDialFailure(ctxDone)]
          /\ UNCHANGED <<rconn, nextConn>>
    /\ UNCHANGED <<disconnected, wgCount, ctxDone, writer, deadConns, closeLog, spawnCause>>
    /\ UNCHANGED <<pc, local, cycles, sinkVars, nonNet>>

\* reconnect, lines 461-466: select on time.After(1 * time.Second) and on
\* s.context.Done()
ReconnectWait(k) ==
    /\ k <= Len(rpc)
    /\ rpc[k] = "wait"
    /\ \/ rpc' = [rpc EXCEPT ![k] = "dial"]
       \/ /\ ctxDone
          /\ rpc' = [rpc EXCEPT ![k] = "deferred"]
    /\ UNCHANGED <<disconnected, wgCount, ctxDone, writer, deadConns, closeLog, nextConn, rconn,
                   spawnCause>>
    /\ UNCHANGED <<pc, local, cycles, sinkVars, nonNet>>

CloseTargetMutantNew(current, connect) == connect

\* reconnect, line 470: the connection s.writer.(net.Conn).Close() closes is the
\* one s.writer refers to before the assignment of line 471
CloseTarget(current, connect) == current

\* reconnect, line 470: s.writer.(net.Conn).Close()
ReconnectCloseOld(k) ==
    /\ k <= Len(rpc)
    /\ rpc[k] = "close_old"
    /\ deadConns' = deadConns \cup {CloseTarget(writer, rconn[k])}
    /\ closeLog' = Append(closeLog, [conn |-> CloseTarget(writer, rconn[k]),
                                     by |-> "reconnect"])
    /\ rpc' = [rpc EXCEPT ![k] = "assign"]
    /\ UNCHANGED <<disconnected, wgCount, ctxDone, writer, nextConn, rconn, spawnCause>>
    /\ UNCHANGED <<pc, local, cycles, sinkVars, nonNet>>

\* reconnect, line 471: s.writer = connect
ReconnectAssign(k) ==
    /\ k <= Len(rpc)
    /\ rpc[k] = "assign"
    /\ writer' = rconn[k]
    /\ rpc' = [rpc EXCEPT ![k] = "cas"]
    /\ UNCHANGED <<disconnected, wgCount, ctxDone, deadConns, closeLog, nextConn, rconn, spawnCause>>
    /\ UNCHANGED <<pc, local, cycles, sinkVars, nonNet>>

\* reconnect, line 475: atomic.CompareAndSwapInt32(&s.disconnected, 1, 0)
ReconnectCAS(k) ==
    /\ k <= Len(rpc)
    /\ rpc[k] = "cas"
    /\ disconnected' = IF CAS(disconnected, 1) THEN 0 ELSE disconnected
    /\ rpc' = [rpc EXCEPT ![k] = "deferred"]
    /\ UNCHANGED <<wgCount, ctxDone, writer, deadConns, closeLog, nextConn, rconn, spawnCause>>
    /\ UNCHANGED <<pc, local, cycles, sinkVars, nonNet>>

\* reconnect, line 442: the deferred s.contextWaitGroup.Done(), after which the
\* goroutine has terminated
ReconnectDone(k) ==
    /\ k <= Len(rpc)
    /\ rpc[k] = "deferred"
    /\ wgCount' = wgCount - 1
    /\ rpc' = [rpc EXCEPT ![k] = "exited"]
    /\ UNCHANGED <<disconnected, ctxDone, writer, deadConns, closeLog, nextConn, rconn, spawnCause>>
    /\ UNCHANGED <<pc, local, cycles, sinkVars, nonNet>>

\* NetworkSyncer.Close, line 509: s.contextCancel()
NetCloseCancel(t) ==
    /\ pc[t] = "cl_start"
    /\ ctxDone' = TRUE
    /\ pc' = [pc EXCEPT ![t] = "cl_wait"]
    /\ UNCHANGED <<disconnected, wgCount, writer, deadConns, closeLog, nextConn, rpc, rconn, spawnCause>>
    /\ UNCHANGED <<local, cycles, sinkVars, nonNet>>

\* Close, line 510: s.contextWaitGroup.Wait() returns when the counter is 0
NetCloseWait(t) ==
    /\ pc[t] = "cl_wait"
    /\ wgCount = 0
    /\ pc' = [pc EXCEPT ![t] = "cl_base"]
    /\ UNCHANGED <<local, cycles, sinkVars, netVars, nonNet>>

\* Close, line 511: s.StandardSyncer.Close()
NetCloseBase(t) ==
    /\ pc[t] = "cl_base"
    /\ \E out \in (IF SyncFlush(Bytes(buffer)) THEN NetOutcomes(Bytes(buffer)) ELSE NoCall) :
         SyncBody("close", out, None)
    /\ pc' = [pc EXCEPT ![t] = "cl_conn"]
    /\ UNCHANGED <<option, hasBuffer, capacity, mutexOn, isFile, closed, inFlight, accepted, written,
                   ops>>
    /\ UNCHANGED <<local, cycles, netVars, nonNet>>

\* Close, line 512: return s.StandardSyncer.writer.(net.Conn).Close()
NetCloseConn(t) ==
    /\ pc[t] = "cl_conn"
    /\ deadConns' = deadConns \cup {writer}
    /\ closeLog' = Append(closeLog, [conn |-> writer, by |-> "close"])
    /\ closed' = TRUE
    /\ pc' = [pc EXCEPT ![t] = "done"]
    /\ UNCHANGED <<disconnected, wgCount, ctxDone, writer, nextConn, rpc, rconn, spawnCause>>
    /\ UNCHANGED <<buffer, option, hasBuffer, capacity, mutexOn, isFile, device, devCalls, inFlight,
                   accepted, written, ops, syncCalls, devErrSeen, lastOp>>
    /\ UNCHANGED <<local, cycles, nonNet>>

NetWriterStep(t) ==
    \/ NetWriteCall(t)
    \/ NetWriteCheck(t)
    \/ NetWriteAdd(t)
    \/ NetWriteGo(t)

ReconnectStep(k) ==
    \/ ReconnectDial(k)
    \/ ReconnectWait(k)
    \/ ReconnectCloseOld(k)
    \/ ReconnectAssign(k)
    \/ ReconnectCAS(k)
    \/ ReconnectDone(k)

NetCloseStep(t) ==
    \/ NetCloseCancel(t)
    \/ NetCloseWait(t)
    \/ NetCloseBase(t)
    \/ NetCloseConn(t)

\* a network syncer built by NetworkSyncerOption.Build, lines 591-618, without
\* a cache or with a cache of 1024 bytes, its writers and the caller of Close
InitNet ==
    /\ \E c \in {0, MinCapacity} : Built(c, FALSE, FALSE)
    /\ InitNetState
    /\ InitSamplerIdle
    /\ InitLoggerIdle
    /\ pc = [t \in NetThreads |-> IF t = Closer THEN "cl_start" ELSE "nw_start"]
    /\ ret = [t \in NetThreads |-> "done"]
    /\ count = [t \in NetThreads |-> 1]
    /\ local = [t \in NetThreads |-> [err |-> None, conn |-> 0, seen |-> 0, down |-> FALSE]]
    /\ cycles = [t \in NetThreads |-> 0]
    /\ status = Unlocked
    /\ conditionL = None
    /\ waiters = {}
    /\ holders = {}
    /\ values = 0

NextNet ==
    \/ ConnInvalidate
    \/ \E t \in NetWriters : NetWriterStep(t)
    \/ \E k \in TaskIds : ReconnectStep(k)
    \/ NetCloseStep(Closer)

SpecNet == InitNet /\ [][NextNet]_vars

\* one goroutine writes, one closes
NextNetSolo ==
    \/ ConnInvalidate
    \/ NetWriterStep(Solo)
    \/ \E k \in TaskIds : ReconnectStep(k)
    \/ NetCloseStep(Closer)

SpecNetSolo == InitNet /\ [][NextNetSolo]_vars

\* the runs in which only n1 calls Write
NextNetFair ==
    \/ ConnInvalidate
    \/ NetWriterStep("n1")
    \/ \E k \in TaskIds : ReconnectStep(k)
    \/ NetCloseStep(Closer)

\* a reconnect goroutine that can take a step eventually takes one: the
\* scheduler runs it, DialContext returns (its Dialer has a timeout of 5 seconds,
\* line 445) and the select returns (its timer fires after 1 second)
SpecNetFair ==
    /\ InitNet
    /\ [][NextNetFair]_vars
    /\ \A k \in TaskIds : WF_vars(ReconnectStep(k))

-----------------------------------------------------------------------------
(* Levels, src/level.go lines 14-34 and 144-146 *)

LevelDebug == 0
LevelInfo == 1
LevelWarning == 2
LevelError == 3
LevelFatal == 4

Levels == LevelDebug..LevelFatal

ContainsMutantOpenEnd(span, level) == level >= span.Start /\ level < span.End

\* LevelSpan.Contains
Contains(span, level) == level >= span.Start /\ level <= span.End

-----------------------------------------------------------------------------
(* Level names, src/level.go lines 46-132 and src/encoder.go lines 1276-1291:  *)
(* a name is the sequence of its bytes                                        *)

NameDebug == <<100, 101, 98, 117, 103>>
NameInfo == <<105, 110, 102, 111>>
NameWarning == <<119, 97, 114, 110, 105, 110, 103>>
NameError == <<101, 114, 114, 111, 114>>
NameFatal == <<102, 97, 116, 97, 108>>

\* fmt.Sprintf("unknown(%d)", l) for the one undefined level the model formats
LevelUndefined == LevelFatal + 1
NameUnknown == <<117, 110, 107, 110, 111, 119, 110, 40, 53, 41>>

\* Level.String, level.go lines 46-61
String(l) ==
    CASE l = LevelDebug -> NameDebug
      [] l = LevelInfo -> NameInfo
      [] l = LevelWarning -> NameWarning
      [] l = LevelError -> NameError
      [] l = LevelFatal -> NameFatal
      [] OTHER -> NameUnknown

\* strings.ToLower on the bytes of an ASCII name
ToLower(name) ==
    [i \in DOMAIN name |-> IF name[i] \in 65..90 THEN name[i] + 32 ELSE name[i]]

ErrInvalidLevel == "invalid level"

\* the switch of ParseFrom (level.go lines 103-116) and of ParseLevel
\* (encoder.go lines 1277-1290): the level a name stands for, and the error
ParseSwitch(name) ==
    LET lower == ToLower(name)
    IN CASE lower = NameDebug -> [level |-> LevelDebug, err |-> None]
         [] lower = NameInfo -> [level |-> LevelInfo, err |-> None]
         [] lower = NameWarning -> [level |-> LevelWarning, err |-> None]
         [] lower = NameError -> [level |-> LevelError, err |-> None]
         [] lower = NameFatal -> [level |-> LevelFatal, err |-> None]
         [] OTHER -> [level |-> 0, err |-> ErrInvalidLevel]

\* Level.ParseFrom, level.go lines 102-119: the receiver is passed by value, the
\* level the switch assigns is the callee's copy, and the caller's l stays
ParseFrom(l, name) == [level |-> l, err |-> ParseSwitch(name).err]

\* ParseLevel, level.go lines 122-132: var level Level; err := level.ParseFrom(name)
ParseLevelByParseFrom(name) ==
    LET r == ParseFrom(0, name)
    IN IF r.err # None THEN [level |-> 0, err |-> r.err] ELSE r

\* the two ParseLevel functions the sources hold
Builds == {"level.go", "encoder.go"}
ParseLevel(build, name) ==
    IF build = "level.go" THEN ParseLevelByParseFrom(name) ELSE ParseSwitch(name)

\* names given to ParseLevel: the five names, in other cases, and names of no level
ParseNames ==
    {NameDebug, NameInfo, NameWarning, NameError, NameFatal,
     <<68, 69, 66, 85, 71>>, <<73, 110, 102, 111>>, <<87, 65, 82, 78, 73, 78, 71>>, <<102, 97, 116, 108>>, <<116, 114, 97, 99, 101>>, <<117, 110, 107, 110, 111, 119, 110, 40, 53, 41>>, <<>>}

Parser == "p"

\* a level to format and a name to parse
InitLevel ==
    /\ pc = [t \in {Parser} |-> "lv_start"]
    /\ \E b \in Builds, l \in Levels \cup {LevelUndefined}, n \in ParseNames :
         local = [t \in {Parser} |->
                    [build |-> b, level |-> l, name |-> n, formatted |-> FALSE,
                     parsed |-> [level |-> 0, err |-> None]]]
    /\ ret = [t \in {Parser} |-> "done"]
    /\ count = [t \in {Parser} |-> 1]
    /\ cycles = [t \in {Parser} |-> 0]
    /\ status = Unlocked
    /\ conditionL = None
    /\ waiters = {}
    /\ holders = {}
    /\ values = 0
    /\ InitSinkIdle
    /\ InitNetState
    /\ InitSamplerIdle
    /\ InitLoggerIdle

\* name := level.String()
LevelFormat ==
    /\ pc[Parser] = "lv_start"
    /\ local' = [local EXCEPT ![Parser].name = String(local[Parser].level),
                              ![Parser].formatted = TRUE]
    /\ pc' = [pc EXCEPT ![Parser] = "lv_named"]
    /\ UNCHANGED <<ret, count, cycles, status, conditionL, waiters, holders, values>>
    /\ UNCHANGED <<sinkVars, netVars, smpVars, logVars>>

\* level, err := ParseLevel(name)
LevelParse ==
    /\ pc[Parser] \in {"lv_start", "lv_named"}
    /\ local' = [local EXCEPT
                   ![Parser].parsed = ParseLevel(local[Parser].build, local[Parser].name)]
    /\ pc' = [pc EXCEPT ![Parser] = "lv_parsed"]
    /\ UNCHANGED <<ret, count, cycles, status, conditionL, waiters, holders, values>>
    /\ UNCHANGED <<sinkVars, netVars, smpVars, logVars>>

NextLevel == LevelFormat \/ LevelParse

SpecLevel == InitLevel /\ [][NextLevel]_vars

-----------------------------------------------------------------------------
(* TextSampler, src/unnamed/part_003 lines 630-732 *)

\* A uint64 is kept as its eight bytes, least significant first, so that the
\* arithmetic of hash64 modulo 2^64 is exact.
Byte == 256

\* 14695981039346656037 = 0xCBF29CE484222325
FnvOffset == <<37, 35, 34, 132, 228, 156, 242, 203>>

\* 1099511628211 = 0x00000100000001B3
FnvPrime == <<179, 1, 0, 0, 0, 1, 0, 0>>

RECURSIVE Xor8(_, _)
Xor8(x, y) ==
    IF x = 0 /\ y = 0 THEN 0
    ELSE (((x % 2) + (y % 2)) % 2) + 2 * Xor8(x \div 2, y \div 2)

RECURSIVE MulColumn(_, _, _, _)
\* the sum of a[j] * b[i + 1 - j] for j in 1..m
MulColumn(a, b, i, m) ==
    IF m = 0 THEN 0 ELSE a[m] * b[i + 1 - m] + MulColumn(a, b, i, m - 1)

RECURSIVE MulFrom(_, _, _, _)
MulFrom(a, b, i, carry) ==
    IF i > 8 THEN <<>>
    ELSE LET sum == carry + MulColumn(a, b, i, i)
         IN <<sum % Byte>> \o MulFrom(a, b, i + 1, sum \div Byte)

\* a * b modulo 2^64
Mul64(a, b) == MulFrom(a, b, 1, 0)

RECURSIVE HashFrom(_, _, _)
HashFrom(result, text, index) ==
    IF index > Len(text) THEN result
    ELSE HashFrom(Mul64([result EXCEPT ![1] = Xor8(result[1], text[index])], FnvPrime),
                  text, index + 1)

\* hash64, lines 678-685: FNV-1a over the bytes of the text
hash64(text) == HashFrom(FnvOffset, text, 1)

RECURSIVE ModFrom(_, _, _, _)
ModFrom(h, n, i, r) ==
    IF i = 0 THEN r ELSE ModFrom(h, n, i - 1, (r * Byte + h[i]) % n)

\* h % n for a uint64 h and 0 < n
Mod64(h, n) == ModFrom(h, n, 8, 0)

\* the entries given to Sample: a level and a message, which is a text (its
\* bytes) or a message that is no TextSampleParser
NoText == <<0, 0>>
TextA == <<97>>
TextB == <<98>>
SampleEntries == [level : {LevelInfo, LevelFatal}, text : {TextA, TextB, NoText}]

\* hash64 of the texts of these entries
TextHash == [text \in {TextA, TextB} |-> hash64(text)]

\* options of the sampler the model builds (NewTextSamplerOption, lines 816-826,
\* gives First 100 and Thereafter 100)
DefaultFirst == 100
DefaultThereafter == 100
SamplerOptions ==
    {[First |-> DefaultFirst, Thereafter |-> DefaultThereafter, Counters |-> 1],
     [First |-> 2, Thereafter |-> 3, Counters |-> 1],
     [First |-> 2, Thereafter |-> 3, Counters |-> 4]}

\* the sampling period, in units of the model's clock
TickUnits == 2

\* the model's clock runs from 1 to MaxClock
MaxClock == 3

\* Sample calls are made on one sampler until MaxPeriods periods of thereafter
\* calls have followed the first calls; at most MaxOtherCalls of them are not
\* the tracked entry
MaxPeriods == 2
MaxOtherCalls == 1
CallLimit == sampler.first + MaxPeriods * sampler.thereafter + 1

\* TextSamplerOption.Build, lines 775-783
BuiltSampler(o) ==
    /\ sampler = [span |-> [Start |-> LevelInfo, End |-> LevelWarning],
                  tick |-> TickUnits, first |-> o.First, thereafter |-> o.Thereafter]
    /\ counters = [i \in 1..o.Counters |-> [count |-> 0, after |-> 0]]
    /\ now = 1
    /\ sampled = None
    /\ smpHist = [calls |-> 0, other |-> 0, start |-> 0, same |-> TRUE]

InitSampler == \E o \in SamplerOptions : BuiltSampler(o)

\* Sample, line 698: index := s.hash64(parser.SampleText()) % uint64(len(s.counters))
SampleIndex(text) == Mod64(TextHash[text], Len(counters))

BypassMutantAnyLevel(e) == e.text = NoText

\* Sample, lines 690-696: the entry is not subject to sampling
Bypass(e) == ~Contains(sampler.span, e.level) \/ e.text = NoText

ResetDueMutantStrict(after, clock) == after < clock

\* Sample, line 705: if after <= clock
ResetDue(after, clock) == after <= clock

\* Sample, lines 712-717: atomic.AddUint64(&count, -count + 1) when count > 0
\* (a uint64 count is kept by its signed reading: a negative v stands for 2^64 + v,
\* the value the count has after it wrapped around)
ResetCount(current, loaded) == IF loaded # 0 THEN current - loaded + 1 ELSE current

\* a > b for a uint64 a and a small b
UGt(a, b) == a < 0 \/ a > b

\* 2^64 % m
Pow64Mod(m) ==
    LET r == 65536 % m
        r2 == (r * r) % m
    IN (r2 * r2) % m

\* v % m for a uint64 v
UMod(v, m) == IF v < 0 THEN (Pow64Mod(m) + (v % m)) % m ELSE v % m

\* Sample, line 727
Discard(added, first, thereafter) ==
    UGt(added, first) /\ UMod(added - first, thereafter) # 0

\* the counters after Sample(e) at time clock, and its result
SampleResult(e, clock) ==
    IF Bypass(e) THEN [counters |-> counters, result |-> TRUE]
    ELSE LET index == SampleIndex(e.text) + 1
             loaded == counters[index].count
             after == counters[index].after
         IN IF ResetDue(after, clock)
            THEN [counters |-> [counters EXCEPT
                                  ![index] = [count |-> ResetCount(counters[index].count, loaded),
                                              after |-> IF CAS(counters[index].after, after)
                                                        THEN clock + sampler.tick
                                                        ELSE counters[index].after]],
                  result |-> TRUE]
            ELSE [counters |-> [counters EXCEPT ![index].count = counters[index].count + 1],
                  result |-> ~Discard(counters[index].count + 1, sampler.first,
                                      sampler.thereafter)]

\* Sample, lines 698 and 727: the modulo by len(s.counters), and the modulo by
\* s.thereafter once the incremented count exceeds s.first, panic when the
\* divisor is 0
Panics(e, clock) ==
    /\ ~Bypass(e)
    /\ \/ Len(counters) = 0
       \/ LET index == SampleIndex(e.text) + 1
          IN /\ ~ResetDue(counters[index].after, clock)
             /\ counters[index].count + 1 > sampler.first
             /\ sampler.thereafter = 0

\* the counters a panicking Sample leaves: line 722 has run when line 727 panics
PanicCounters(e) ==
    IF Len(counters) = 0 THEN counters
    ELSE [counters EXCEPT ![SampleIndex(e.text) + 1].count = @ + 1]

\* a Sample call has panicked
Crashed == smpHist.calls > 0 /\ sampled.panic

\* the entry the claims about one repeated message follow
Tracked == [level |-> LevelInfo, text |-> TextA]

\* one call of TextSampler.Sample, lines 689-732, with an entry whose time is now
Sample(e) ==
    /\ smpHist.calls < CallLimit
    /\ e # Tracked => smpHist.other < MaxOtherCalls
    /\ ~Crashed
    /\ LET first == smpHist.calls = 0
           start == IF first THEN now ELSE smpHist.start
       IN /\ IF Panics(e, now)
             THEN /\ counters' = PanicCounters(e)
                  /\ sampled' = [entry |-> e, result |-> FALSE, clock |-> now, index |-> 0,
                                 before |-> counters, panic |-> TRUE]
             ELSE LET r == SampleResult(e, now)
                  IN /\ counters' = r.counters
                     /\ sampled' = [entry |-> e, result |-> r.result, clock |-> now,
                                    index |-> IF Bypass(e) THEN 0
                                              ELSE SampleIndex(e.text) + 1,
                                    before |-> counters, panic |-> FALSE]
          /\ smpHist' = [calls |-> smpHist.calls + 1,
                         other |-> smpHist.other + (IF e = Tracked THEN 0 ELSE 1),
                         start |-> start,
                         same |-> smpHist.same /\ e = Tracked /\ now < start + sampler.tick]
    /\ UNCHANGED <<sampler, now>>
    /\ UNCHANGED <<lockVars, sinkVars, netVars, logVars>>

\* time passes between two entries
Advance ==
    /\ now < MaxClock
    /\ now' = now + 1
    /\ UNCHANGED <<sampler, counters, sampled, smpHist>>
    /\ UNCHANGED <<lockVars, sinkVars, netVars, logVars>>

InitSmp ==
    /\ InitSampler
    /\ InitLockIdle
    /\ InitSinkIdle
    /\ InitNetState
    /\ InitLoggerIdle

NextSmp ==
    \/ \E e \in SampleEntries : Sample(e)
    \/ Advance

SpecSampler == InitSmp /\ [][NextSmp]_vars

\* option values Build accepts besides those of SamplerOptions: Build checks none
ZeroOptions ==
    {[First |-> 2, Thereafter |-> 3, Counters |-> 0],
     [First |-> 1, Thereafter |-> 0, Counters |-> 1],
     [First |-> 0, Thereafter |-> 2, Counters |-> 4]}

InitSmpAny ==
    /\ \E o \in ZeroOptions : BuiltSampler(o)
    /\ InitLockIdle
    /\ InitSinkIdle
    /\ InitNetState
    /\ InitLoggerIdle

SpecSamplerAny == InitSmpAny /\ [][NextSmp]_vars

-----------------------------------------------------------------------------
(* TextSampler.Sample called by several goroutines, statement by statement *)

SmpThreads == {"s1", "s2"}

\* Sample calls each goroutine makes
MaxSmpCalls == 3

\* the entries the goroutines log: the tracked one, and one outside the span
ConcEntries == {[level |-> LevelInfo, text |-> TextA], [level |-> LevelFatal, text |-> TextA]}

\* Sample has returned result to goroutine t
SmpReturned(t, result) ==
    /\ pc' = [pc EXCEPT ![t] = "sm_idle"]
    /\ cycles' = [cycles EXCEPT ![t] = @ + 1]
    /\ sampled' = [entry |-> local[t].entry, result |-> result, clock |-> local[t].clock,
                   index |-> local[t].index, before |-> counters, panic |-> FALSE]

smpFrame ==
    /\ UNCHANGED <<ret, count, status, conditionL, waiters, holders, values>>
    /\ UNCHANGED <<sampler, now>>
    /\ UNCHANGED <<sinkVars, netVars, logVars>>

\* Sample, lines 690-698 and 700: the span and message tests, the index, the clock
SmpCall(t, e) ==
    /\ pc[t] = "sm_idle"
    /\ cycles[t] < MaxSmpCalls
    /\ IF Bypass(e)
       THEN /\ pc' = pc
            /\ cycles' = [cycles EXCEPT ![t] = @ + 1]
            /\ local' = [local EXCEPT ![t] = [entry |-> e, index |-> 0, clock |-> now,
                                              count |-> 0, after |-> 0]]
            /\ sampled' = [entry |-> e, result |-> TRUE, clock |-> now, index |-> 0,
                           before |-> counters, panic |-> FALSE]
            /\ smpHist' = [smpHist EXCEPT !.calls = @ + 1]
       ELSE /\ pc' = [pc EXCEPT ![t] = "sm_count"]
            /\ local' = [local EXCEPT ![t] = [entry |-> e, index |-> SampleIndex(e.text) + 1,
                                              clock |-> now, count |-> 0, after |-> 0]]
            /\ UNCHANGED <<cycles, sampled, smpHist>>
    /\ UNCHANGED counters
    /\ smpFrame

\* Sample, line 699: count := atomic.LoadUint64(&s.counters[index].count)
SmpLoadCount(t) ==
    /\ pc[t] = "sm_count"
    /\ local' = [local EXCEPT ![t].count = counters[local[t].index].count]
    /\ pc' = [pc EXCEPT ![t] = "sm_after"]
    /\ UNCHANGED <<cycles, counters, sampled, smpHist>>
    /\ smpFrame

\* Sample, lines 701 and 705: after := atomic.LoadInt64(...); if after <= clock
SmpLoadAfter(t) ==
    /\ pc[t] = "sm_after"
    /\ LET after == counters[local[t].index].after
       IN /\ local' = [local EXCEPT ![t].after = after]
          /\ pc' = [pc EXCEPT ![t] = IF ResetDue(after, local[t].clock)
                                     THEN "sm_cas" ELSE "sm_add"]
    /\ UNCHANGED <<cycles, counters, sampled, smpHist>>
    /\ smpFrame

\* Sample, lines 708-709: atomic.CompareAndSwapInt64(&after, after, clock + s.tick),
\* whose result is not looked at
SmpSwapAfter(t) ==
    /\ pc[t] = "sm_cas"
    /\ counters' = [counters EXCEPT ![local[t].index].after =
                       IF CAS(@, local[t].after) THEN local[t].clock + sampler.tick ELSE @]
    /\ pc' = [pc EXCEPT ![t] = "sm_reset"]
    /\ UNCHANGED <<local, cycles, sampled, smpHist>>
    /\ smpFrame

\* Sample, lines 712-719: the atomic add of -count + 1 when the loaded count is
\* not 0, and return true
SmpReset(t) ==
    /\ pc[t] = "sm_reset"
    /\ counters' = [counters EXCEPT ![local[t].index].count = ResetCount(@, local[t].count)]
    /\ SmpReturned(t, TRUE)
    /\ smpHist' = [calls |-> smpHist.calls + 1,
                   base |-> ResetCount(counters[local[t].index].count, local[t].count),
                   adds |-> <<>>, kept |-> 0, raced |-> FALSE]
    /\ UNCHANGED local
    /\ smpFrame

PostIncrementMutantStale(current, loaded) == loaded + 1

\* Sample, line 722: the value atomic.AddUint64(&count, 1) returns, whatever
\* count line 699 had loaded
PostIncrement(current, loaded) == current + 1

\* Sample, lines 722-731: count = atomic.AddUint64(&count, 1) and the decision;
\* the history keeps the values obtained since the last reset step, how many of
\* them were kept, and whether an add landed between a load and its add
SmpAdd(t) ==
    /\ pc[t] = "sm_add"
    /\ LET current == counters[local[t].index].count
           added == PostIncrement(current, local[t].count)
           keep == ~Discard(added, sampler.first, sampler.thereafter)
       IN /\ counters' = [counters EXCEPT ![local[t].index].count = added]
          /\ local' = [local EXCEPT ![t].count = added]
          /\ SmpReturned(t, keep)
          /\ smpHist' = [smpHist EXCEPT !.calls = @ + 1,
                                        !.adds = Append(@, added),
                                        !.kept = @ + (IF keep THEN 1 ELSE 0),
                                        !.raced = @ \/ local[t].count # current]
    /\ smpFrame

\* a sampler of one counter (First 2, Thereafter 3) shared by the goroutines
InitSmpConc ==
    /\ sampler = [span |-> [Start |-> LevelInfo, End |-> LevelWarning],
                  tick |-> TickUnits, first |-> 2, thereafter |-> 3]
    /\ counters = <<[count |-> 0, after |-> 0]>>
    /\ now = 1
    /\ sampled = None
    /\ smpHist = [calls |-> 0, base |-> 0, adds |-> <<>>, kept |-> 0, raced |-> FALSE]
    /\ pc = [t \in SmpThreads |-> "sm_idle"]
    /\ local = [t \in SmpThreads |-> [entry |-> None, index |-> 0, clock |-> 0,
                                       count |-> 0, after |-> 0]]
    /\ cycles = [t \in SmpThreads |-> 0]
    /\ ret = [t \in SmpThreads |-> "done"]
    /\ count = [t \in SmpThreads |-> 1]
    /\ status = Unlocked
    /\ conditionL = None
    /\ waiters = {}
    /\ holders = {}
    /\ values = 0
    /\ InitSinkIdle
    /\ InitNetState
    /\ InitLoggerIdle

NextSmpConc ==
    \/ \E t \in SmpThreads, e \in ConcEntries : SmpCall(t, e)
    \/ \E t \in SmpThreads : SmpLoadCount(t)
    \/ \E t \in SmpThreads : SmpLoadAfter(t)
    \/ \E t \in SmpThreads : SmpSwapAfter(t)
    \/ \E t \in SmpThreads : SmpReset(t)
    \/ \E t \in SmpThreads : SmpAdd(t)
    \/ Advance

SpecSamplerConc == InitSmpConc /\ [][NextSmpConc]_vars

-----------------------------------------------------------------------------
(* Logger.output, src/logger.go lines 73-120 *)

LogThreads == {"g1", "g2"}

\* output() calls each goroutine makes
MaxLogCalls == 1

\* hooks and exporters a logger is built with
MaxHooks == 2
MaxExporters == 2

\* the levels the calls are made with
CallLevels == {LevelDebug, LevelError}

\* an error value: nil, or the error returned by the index-th hook or exporter
NoError == [from |-> "nil", index |-> 0]
ErrorOf(from, index) == [from |-> from, index |-> index]

\* what hooks[index].Print(entry) and exporters[index].Export(entry) can return
Returns(from, index) == {NoError, ErrorOf(from, index)}

\* a call that has not started
IdleCall == [level |-> LevelDebug, stage |-> "idle", index |-> 0, held |-> FALSE,
             acquired |-> 0, released |-> 0, sampled |-> FALSE, keep |-> TRUE,
             source |-> FALSE, hooked |-> <<>>, exported |-> <<>>,
             err |-> NoError, result |-> NoError, prior |-> FALSE]

\* an earlier call of output() has returned an error
FailedBefore ==
    \E u \in DOMAIN calls : calls[u].stage = "returned" /\ calls[u].result # NoError

EnabledMutantStrict(l, level) == l < level

\* Level.Enabled, src/level.go lines 42-44
Enabled(l, level) == l <= level

GatedMutantLevelOnly(level) == ~Enabled(logger.level, level)

GatedMutantLatch(level) ==
    ~Enabled(logger.level, level) \/ logger.exporters = 0 \/ FailedBefore

\* output, lines 74-80: the level gate and the check for exporters
Gated(level) == ~Enabled(logger.level, level) \/ logger.exporters = 0

\* output, lines 74-88: the early returns, or an entry is taken from the pool
\* and filled
OutputCallAt(t, levels) ==
    /\ pc[t] = "out_start"
    /\ cycles[t] < MaxLogCalls
    /\ \E level \in levels :
         IF Gated(level)
         THEN /\ calls' = [calls EXCEPT ![t] = [IdleCall EXCEPT !.level = level,
                                                               !.stage = "returned",
                                                               !.prior = FailedBefore]]
              /\ pc' = [pc EXCEPT ![t] = "out_done"]
              /\ UNCHANGED pool
         ELSE /\ calls' = [calls EXCEPT ![t] = [IdleCall EXCEPT !.level = level,
                                                               !.stage = "running",
                                                               !.held = TRUE,
                                                               !.acquired = 1,
                                                               !.prior = FailedBefore]]
              /\ pool' = [pool EXCEPT !.acquired = pool.acquired + 1]
              /\ pc' = [pc EXCEPT ![t] = "out_sample"]
    /\ UNCHANGED <<logger, sinks>>
    /\ UNCHANGED <<ret, count, local, cycles, status, conditionL, waiters, holders, values>>
    /\ UNCHANGED <<sinkVars, netVars, smpVars>>

OutputCall(t) == OutputCallAt(t, CallLevels)

DiscardedMutantNever(hasSampler, keep) == FALSE

\* output, line 90: l.sampler != nil && !l.sampler.Sample(entry)
Discarded(hasSampler, keep) == hasSampler /\ ~keep

AfterSampleMutantNoFree(discard) == IF discard THEN "out_done" ELSE "out_hooks"

AfterSampleMutantSkipHooks(discard) == IF discard THEN "out_free" ELSE "out_exports"

\* output, lines 90-100: a discarded entry is freed, a kept one goes to the hooks
AfterSample(discard) == IF discard THEN "out_free" ELSE "out_hooks"

\* output, lines 90-98: the sampler, when there is one, decides; a kept entry
\* gets its source location when addSource is set
OutputSample(t) ==
    /\ pc[t] = "out_sample"
    /\ \E keep \in (IF logger.sampler THEN BOOLEAN ELSE {TRUE}) :
         LET discard == Discarded(logger.sampler, keep)
         IN /\ calls' = [calls EXCEPT ![t].sampled = logger.sampler,
                                      ![t].keep = keep,
                                      ![t].source = ~discard /\ logger.addSource]
            /\ pc' = [pc EXCEPT ![t] = AfterSample(discard)]
    /\ UNCHANGED <<logger, pool, sinks>>
    /\ UNCHANGED <<ret, count, local, cycles, status, conditionL, waiters, holders, values>>
    /\ UNCHANGED <<sinkVars, netVars, smpVars>>

HookAbortsMutantNever(err) == FALSE

\* output, line 103: if err != nil
HookAborts(err) == err # NoError

\* output, lines 100-107: one iteration of the loop over l.hooks, or its end
OutputHook(t) ==
    /\ pc[t] = "out_hooks"
    /\ LET index == calls[t].index
       IN IF index < logger.hooks
          THEN \E err \in Returns("hook", index) :
                 /\ calls' = [calls EXCEPT
                       ![t].hooked = Append(@, [index |-> index, err |-> err]),
                       ![t].index = IF HookAborts(err) THEN index ELSE index + 1,
                       ![t].err = IF HookAborts(err) THEN err ELSE @]
                 /\ pc' = [pc EXCEPT ![t] = IF HookAborts(err) THEN "out_free"
                                            ELSE "out_hooks"]
          ELSE /\ calls' = [calls EXCEPT ![t].index = 0]
               /\ pc' = [pc EXCEPT ![t] = "out_exports"]
    /\ UNCHANGED <<logger, pool, sinks>>
    /\ UNCHANGED <<ret, count, local, cycles, status, conditionL, waiters, holders, values>>
    /\ UNCHANGED <<sinkVars, netVars, smpVars>>

ExportAbortsMutantNever(err) == FALSE

\* output, line 112: if err != nil
ExportAborts(err) == err # NoError

\* StandardExporter.Export, part_000 lines 750-781: an entry whose level is not
\* in the exporter's span is left alone and nil is returned; otherwise the entry
\* is encoded and written to the syncer, and the error of either is returned
ExportReturns(index, level) ==
    IF Contains(logger.spans[index + 1], level) THEN Returns("exporter", index)
    ELSE {NoError}

\* Export, lines 751 and 777: the encoded entry was written to the syncer
ExportWrote(index, level, err) ==
    Contains(logger.spans[index + 1], level) /\ err = NoError

\* output, lines 109-116: one iteration of the loop over l.exporters, or its end
OutputExport(t) ==
    /\ pc[t] = "out_exports"
    /\ LET index == calls[t].index
       IN IF index < logger.exporters
          THEN \E err \in ExportReturns(index, calls[t].level) :
                 /\ calls' = [calls EXCEPT
                       ![t].exported = Append(@, [index |-> index, err |-> err,
                                                  wrote |-> ExportWrote(index, calls[t].level, err)]),
                       ![t].index = IF ExportAborts(err) THEN index ELSE index + 1,
                       ![t].err = IF ExportAborts(err) THEN err ELSE @]
                 /\ pc' = [pc EXCEPT ![t] = IF ExportAborts(err) THEN "out_free"
                                            ELSE "out_exports"]
                 /\ sinks' = IF ExportWrote(index, calls[t].level, err)
                              THEN [sinks EXCEPT ![index + 1] = sinks[index + 1] + 1]
                              ELSE sinks
          ELSE /\ UNCHANGED <<calls, sinks>>
               /\ pc' = [pc EXCEPT ![t] = "out_free"]
    /\ UNCHANGED <<logger, pool>>
    /\ UNCHANGED <<ret, count, local, cycles, status, conditionL, waiters, holders, values>>
    /\ UNCHANGED <<sinkVars, netVars, smpVars>>

\* output, lines 91-92, 104-105, 113-114 and 118-119: pool.entry.Free(entry) and
\* the return of nil or of the error
OutputFree(t) ==
    /\ pc[t] = "out_free"
    /\ pool' = [pool EXCEPT !.released = pool.released + 1]
    /\ calls' = [calls EXCEPT ![t].held = FALSE,
                              ![t].released = calls[t].released + 1,
                              ![t].stage = "returned",
                              ![t].result = calls[t].err]
    /\ pc' = [pc EXCEPT ![t] = "out_done"]
    /\ UNCHANGED <<logger, sinks>>
    /\ UNCHANGED <<ret, count, local, cycles, status, conditionL, waiters, holders, values>>
    /\ UNCHANGED <<sinkVars, netVars, smpVars>>

\* the caller has the result of output() and goes on to its next call
OutputNext(t) ==
    /\ pc[t] = "out_done"
    /\ cycles' = [cycles EXCEPT ![t] = cycles[t] + 1]
    /\ pc' = [pc EXCEPT ![t] = "out_start"]
    /\ UNCHANGED <<logger, calls, pool, sinks>>
    /\ UNCHANGED <<ret, count, local, status, conditionL, waiters, holders, values>>
    /\ UNCHANGED <<sinkVars, netVars, smpVars>>

OutputStep(t) ==
    \/ OutputCall(t)
    \/ OutputSample(t)
    \/ OutputHook(t)
    \/ OutputExport(t)
    \/ OutputFree(t)
    \/ OutputNext(t)

\* the span of an exporter that takes entries of every level
FullSpan == [Start |-> LevelDebug, End |-> LevelFatal]

\* a logger with a minimum level, with or without a sampler, with its hooks and
\* exporters (numbered from 0 in the order of registration), and its callers
InitLog ==
    /\ \E level \in {LevelDebug, LevelInfo}, smp \in BOOLEAN, src \in BOOLEAN,
          h \in 0..MaxHooks, x \in 0..MaxExporters :
         logger = [level |-> level, sampler |-> smp, addSource |-> src,
                   hooks |-> h, exporters |-> x, spans |-> [j \in 1..x |-> FullSpan]]
    /\ calls = [t \in LogThreads |-> IdleCall]
    /\ pool = [acquired |-> 0, released |-> 0]
    /\ sinks = [j \in 1..logger.exporters |-> 0]
    /\ pc = [t \in LogThreads |-> "out_start"]
    /\ ret = [t \in LogThreads |-> "done"]
    /\ count = [t \in LogThreads |-> 1]
    /\ local = [t \in LogThreads |-> 0]
    /\ cycles = [t \in LogThreads |-> 0]
    /\ status = Unlocked
    /\ conditionL = None
    /\ waiters = {}
    /\ holders = {}
    /\ values = 0
    /\ InitSinkIdle
    /\ InitNetState
    /\ InitSamplerIdle

NextLog == \E t \in LogThreads : OutputStep(t)

SpecLog == InitLog /\ [][NextLog]_vars

-----------------------------------------------------------------------------
(* StandardLogger, src/logger.go lines 260-364 and 876-960: the logger built  *)
(* by StandardOption.Build, its flush goroutine and its Close                 *)

Flusher == "fl"
StdCaller == "g1"
StdThreads == {StdCaller, Flusher, Closer}

\* durations in microseconds: flushHandler's floor, time.Microsecond * 100
\* (logger.go:348-350), and the 100 milliseconds the comments speak of
\* (logger.go:349 and 674-675)
MinInterval == 100
MinIntervalDoc == 100000

\* the values of the option Flushing.Interval that are tried: negative, 0,
\* 50 microseconds, 1 millisecond, 100 milliseconds, 1 second (the default)
FlushIntervals == {-1, 0, 50, 1000, 100000, 1000000}

\* automatic flushes before Close is called at the latest
MaxFlushes == 2

\* what the model leaves alone outside the goroutines' positions and locals, the
\* context and the clock
stdFrame == <<ret, count, cycles, status, conditionL, waiters, holders, values,
              sinkVars, logVars, disconnected, writer, deadConns, closeLog, nextConn, rpc,
              rconn, spawnCause, sampler, counters, sampled, smpHist>>

\* flushHandler, lines 348-351: the interval the handler waits for
FlushPeriod(interval) == IF interval < MinInterval THEN MinInterval ELSE interval

\* Build, lines 954-957: a flush goroutine is started if o.Flushing.Interval > 0
FlushStarted(interval) == interval > 0

\* flushHandler, lines 348-353: the interval is raised to the floor
FlushStart ==
    /\ pc[Flusher] = "fh_start"
    /\ local' = [local EXCEPT ![Flusher] = [period |-> FlushPeriod(logger.interval),
                                            armed |-> now, times |-> <<>>]]
    /\ pc' = [pc EXCEPT ![Flusher] = "fh_select"]
    /\ UNCHANGED <<ctxDone, wgCount, now, stdFrame>>

\* flushHandler, lines 356-358: the select takes the context's Done channel
FlushCancelled ==
    /\ pc[Flusher] = "fh_select"
    /\ ctxDone
    /\ pc' = [pc EXCEPT ![Flusher] = "fh_return"]
    /\ UNCHANGED <<local, ctxDone, wgCount, now, stdFrame>>

\* flushHandler, line 359: the timer made by time.After(interval) when the
\* select was entered fires, interval after it was armed
FlushTimer ==
    /\ pc[Flusher] = "fh_select"
    /\ Len(local[Flusher].times) < MaxFlushes
    /\ now' = local[Flusher].armed + local[Flusher].period
    /\ pc' = [pc EXCEPT ![Flusher] = "fh_sync"]
    /\ UNCHANGED <<local, ctxDone, wgCount, stdFrame>>

\* flushHandler, lines 360-361: _ = l.Sync(), then the loop enters the select
\* again and arms a new timer
FlushSync ==
    /\ pc[Flusher] = "fh_sync"
    /\ local' = [local EXCEPT ![Flusher].times = Append(@, now),
                              ![Flusher].armed = now]
    /\ pc' = [pc EXCEPT ![Flusher] = "fh_select"]
    /\ UNCHANGED <<ctxDone, wgCount, now, stdFrame>>

\* flushHandler, line 353: the deferred l.contextWaitGroup.Done()
FlushDone ==
    /\ pc[Flusher] = "fh_return"
    /\ wgCount' = wgCount - 1
    /\ pc' = [pc EXCEPT ![Flusher] = "fh_exited"]
    /\ UNCHANGED <<local, ctxDone, now, stdFrame>>

FlushStep == FlushStart \/ FlushCancelled \/ FlushTimer \/ FlushSync \/ FlushDone

\* what exporters[index].Close() can return
CloseReturns(index) == {NoError, ErrorOf("close", index)}

\* StandardLogger.Close, line 328: l.contextCancel()
StdCloseCancel ==
    /\ pc[Closer] = "sc_start"
    /\ ctxDone' = TRUE
    /\ pc' = [pc EXCEPT ![Closer] = "sc_wait"]
    /\ UNCHANGED <<local, wgCount, now, stdFrame>>

WaitReturnsMutantAtOnce(n) == TRUE

\* sync.WaitGroup.Wait returns when the counter is 0
WaitReturns(n) == n = 0

\* Close, line 329: l.contextWaitGroup.Wait() returns
StdCloseWait ==
    /\ pc[Closer] = "sc_wait"
    /\ WaitReturns(wgCount)
    /\ pc' = [pc EXCEPT ![Closer] = "sc_loop"]
    /\ UNCHANGED <<local, ctxDone, wgCount, now, stdFrame>>

\* Close, line 334: if err != nil
CloseAborts(err) == err # NoError

\* Close, lines 331-339: one iteration of the loop over l.exporters, or its end
StdCloseExporter ==
    /\ pc[Closer] = "sc_loop"
    /\ LET index == local[Closer].index
       IN IF index < logger.exporters
          THEN \E err \in CloseReturns(index) :
                 /\ local' = [local EXCEPT
                       ![Closer].closed = @ \cup {index},
                       ![Closer].index = IF CloseAborts(err) THEN index ELSE index + 1,
                       ![Closer].result = IF CloseAborts(err) THEN err ELSE @]
                 /\ pc' = [pc EXCEPT ![Closer] = IF CloseAborts(err) THEN "sc_done"
                                                 ELSE "sc_loop"]
          ELSE /\ pc' = [pc EXCEPT ![Closer] = "sc_done"]
               /\ UNCHANGED local
    /\ UNCHANGED <<ctxDone, wgCount, now, stdFrame>>

StdCloseStep == StdCloseCancel \/ StdCloseWait \/ StdCloseExporter

\* Debug, Info, Warning, Error and Fatal, lines 273-299: output() with the level
StdOutputCall(t) == OutputCallAt(t, Levels)

StdOutputStep(t) ==
    \/ StdOutputCall(t)
    \/ OutputSample(t)
    \/ OutputHook(t)
    \/ OutputExport(t)
    \/ OutputFree(t)
    \/ OutputNext(t)

\* StandardOption.Build, lines 876-960: two exporters, the first for the levels
\* DEBUG to WARNING on the syncer of Outputting, the second for ERROR to FATAL on
\* the syncer of ErrorOutputting; a flush goroutine if the interval is positive
InitStd ==
    /\ \E level \in {LevelDebug, LevelWarning}, smp \in BOOLEAN, i \in FlushIntervals :
         /\ logger = [level |-> level, sampler |-> smp, addSource |-> FALSE,
                      hooks |-> 0, exporters |-> 2,
                      spans |-> <<[Start |-> LevelDebug, End |-> LevelWarning],
                                  [Start |-> LevelError, End |-> LevelFatal]>>,
                      interval |-> i]
         /\ wgCount = IF FlushStarted(i) THEN 1 ELSE 0
         /\ pc = [t \in StdThreads |->
                    IF t = Closer THEN "sc_start"
                    ELSE IF t = Flusher
                         THEN (IF FlushStarted(i) THEN "fh_start" ELSE "fh_none")
                         ELSE "out_start"]
    /\ calls = [t \in {StdCaller} |-> IdleCall]
    /\ pool = [acquired |-> 0, released |-> 0]
    /\ sinks = <<0, 0>>
    /\ local = [t \in StdThreads |->
                  IF t = Closer THEN [index |-> 0, closed |-> {}, result |-> NoError]
                  ELSE [period |-> 0, armed |-> 0, times |-> <<>>]]
    /\ ret = [t \in StdThreads |-> "done"]
    /\ count = [t \in StdThreads |-> 1]
    /\ cycles = [t \in StdThreads |-> 0]
    /\ status = Unlocked
    /\ conditionL = None
    /\ waiters = {}
    /\ holders = {}
    /\ values = 0
    /\ InitSinkIdle
    /\ disconnected = 0
    /\ ctxDone = FALSE
    /\ writer = 0
    /\ deadConns = {}
    /\ closeLog = <<>>
    /\ nextConn = 1
    /\ rpc = <<>>
    /\ rconn = <<>>
    /\ spawnCause = <<>>
    /\ sampler = None
    /\ counters = <<>>
    /\ now = 0
    /\ sampled = None
    /\ smpHist = None

NextStd ==
    \/ StdOutputStep(StdCaller)
    \/ FlushStep
    \/ StdCloseStep

SpecStd == InitStd /\ [][NextStd]_vars

\* the scheduler runs the flush goroutine and the caller of Close, and a select
\* with several ready cases takes each of them sooner or later (it chooses among
\* them at random), so the Done case of line 356 is taken once the context is
\* cancelled
SpecStdFair ==
    /\ InitStd
    /\ [][NextStd]_vars
    /\ WF_vars(FlushStep)
    /\ SF_vars(FlushCancelled)
    /\ WF_vars(StdCloseStep)

-----------------------------------------------------------------------------
(* Specifications *)

\* NewSpinLock, locker.go:116-121, and the goroutines TestSpinLock starts
InitLock ==
    /\ pc = [t \in Threads |-> IF t \in Workers THEN "w_start" ELSE "s_start"]
    /\ ret = [t \in Threads |-> "done"]
    /\ count = [t \in Threads |-> 1]
    /\ local = [t \in Threads |-> 0]
    /\ cycles = [t \in Threads |-> 0]
    /\ status = Unlocked
    /\ conditionL = None
    /\ waiters = {}
    /\ holders = {}
    /\ values = 0
    /\ InitSinkIdle
    /\ InitNetState
    /\ InitSamplerIdle
    /\ InitLoggerIdle

NextLock ==
    \/ \E t \in Threads : LockStep(t)
    \/ \E t \in Workers : WorkerStep(t)
    \/ SuspenderStep(Suspender)

SpecLock == InitLock /\ [][NextLock]_vars

\* the runs in which one worker contends with the suspender
NextLockFair ==
    \/ \E t \in {"w1", Suspender} : LockStep(t)
    \/ WorkerStep("w1")
    \/ SuspenderStep(Suspender)

\* the scheduler runs every goroutine that can take a step: Gosched (line 71)
\* gives the processor away and gets it back, a goroutine woken by Broadcast or
\* waiting for condition.L runs when it can, and the sleep of the test ends
SpecLockFair ==
    /\ InitLock
    /\ [][NextLockFair]_vars
    /\ \A t \in {"w1", Suspender} : WF_vars(LockStep(t))
    /\ WF_vars(WorkerStep("w1"))
    /\ WF_vars(SuspenderStep(Suspender))

-----------------------------------------------------------------------------
(* Properties of SpecLock *)

InCritical(t) == pc[t] \in {"w_read", "w_write", "w_unlock"}

AllDone == \A t \in Threads : pc[t] = "done"

\* C1: mutual exclusion of the SpinLock. At most one goroutine holds the lock
\* (status Locked or Suspended has exactly one holder, Unlocked has none), at
\* most one worker is between its acquire and its release, and when every
\* goroutine has finished the shared slice holds one element per cycle of every
\* worker (no lost update).
C1_MutualExclusion ==
    /\ Cardinality(holders) <= 1
    /\ (status = Unlocked => holders = {})
    /\ (status # Unlocked => Cardinality(holders) = 1)
    /\ Cardinality({t \in Workers : InCritical(t)}) <= 1
    /\ \A t \in Workers : InCritical(t) => holders = {t}
    /\ (AllDone => values = Cardinality(Workers) * MaxCycles)

\* every goroutine finished, the suspender included, and no append was lost
C1_Witness ==
    /\ AllDone
    /\ values = Cardinality(Workers) * MaxCycles
    /\ \A t \in Workers : cycles[t] = MaxCycles

\* from the return of LockAndSuspend() until the holder calls UnlockAndResume()
SuspendHeld == pc[Suspender] \in {"s_try", "s_sleep"}

\* C7: suspend exclusivity. While the suspender holds the lock, a TryLock() by
\* any caller returns false (the holder's own TryLock of the test did), and no
\* Lock() or TryLock() of a worker has returned: the suspender is the only
\* holder and no worker is in its critical section.
C7_SuspendExclusive ==
    /\ SuspendHeld =>
          /\ ~TryLockOk(status)
          /\ status = Suspended
          /\ holders = {Suspender}
          /\ \A t \in Workers : ~InCritical(t)
    /\ (pc[Suspender] = "s_sleep" => local[Suspender] = 0)

\* the holder's TryLock has failed, one worker is parked on the condition and
\* the other one is in Lock() after its TryLock failed
C7_Witness ==
    /\ pc[Suspender] = "s_sleep"
    /\ local[Suspender] = 0
    /\ \E t \in Workers : t \in waiters /\ pc[t] = "L_wait"
    /\ \E t \in Workers : pc[t] = "L_cas"

-----------------------------------------------------------------------------
(* Properties of SpecSink *)

\* C2: durability. After Close() has returned, if the device never returned an
\* error, the device holds exactly the bytes of the Write calls that returned
\* success, each once and in the order of the calls, and nothing is left in the
\* cache.
C2_Durability ==
    (closed /\ ~devErrSeen) => (device = accepted /\ buffer = <<>> /\ Bytes(device) = written)

\* a closed syncer with a cache whose device never failed: one flush was made
\* by a Write that filled the cache and the last one by Close
C2_Witness ==
    /\ closed
    /\ ~devErrSeen
    /\ hasBuffer
    /\ ops = MaxOps
    /\ devCalls >= 2
    /\ lastOp.op = "close" /\ lastOp.devCalled
    /\ Len(accepted) = MaxOps

\* the last call was a cached Write whose flush failed after the device
\* accepted fewer bytes than the cache held
PartialFlush ==
    /\ lastOp.op = "write"
    /\ hasBuffer
    /\ lastOp.devCalled
    /\ lastOp.devErr # None
    /\ lastOp.devSize < Bytes(lastOp.preBuffer)

\* C8: partial-write retention. After a cached Write whose flush failed with
\* the device having accepted the first s bytes of the cache, the cache is the
\* old cache without its first s bytes, it holds no byte of the failing Write,
\* and Write returned (0, the device's error).
C8_PartialRetention ==
    PartialFlush =>
        /\ Cat(Take(lastOp.preBuffer, lastOp.devSize), buffer) = lastOp.preBuffer
        /\ Bytes(buffer) = Bytes(lastOp.preBuffer) - lastOp.devSize
        /\ \A i \in 1..Len(buffer) : buffer[i].id # ops
        /\ lastOp.n = 0
        /\ lastOp.err = lastOp.devErr

\* a flush failed after the device took a proper, non-empty part of a cache
\* that held the bytes of two Write calls
C8_Witness ==
    /\ PartialFlush
    /\ lastOp.devSize > 0
    /\ Len(lastOp.preBuffer) = 2
    /\ buffer # <<>>

\* C9: buffering. With a cache of capacity C, as long as no Sync or Close was
\* called and the total size of the writes is below C the device has received
\* no Write call; and a Write calls the device only when the cache length plus
\* the length of its buffer reaches or exceeds C.
C9_Buffering ==
    /\ (hasBuffer /\ syncCalls = 0 /\ written < capacity) => (devCalls = 0 /\ device = <<>>)
    /\ (hasBuffer /\ lastOp.op = "write" /\ lastOp.devCalled) =>
          Bytes(lastOp.preBuffer) + lastOp.size >= capacity

\* two writes of 1024 bytes together sit in a cache of 1100 bytes, the device
\* untouched
C9_Witness ==
    /\ hasBuffer
    /\ syncCalls = 0
    /\ ops = 2
    /\ written = 1024
    /\ written < capacity
    /\ Bytes(buffer) = written
    /\ devCalls = 0

-----------------------------------------------------------------------------
(* Properties of SpecSinkConc *)

\* t is between the return of its lock call and its release of the mutex
InSinkCritical(t) ==
    pc[t] \in {"wr_body", "wr_flush", "wr_append", "wr_direct", "wr_unlock",
               "sy_body", "sy_flush", "sy_file", "sy_resume"}

\* C10: with the mutex enabled the bodies of Write and Sync exclude each other:
\* at most one goroutine is inside a body, so the device never has two Write
\* calls in progress and the flush of a Sync never overlaps the append or the
\* flush of a Write.
C10_SinkExclusive ==
    /\ Cardinality(inFlight) <= 1
    /\ Cardinality({t \in SinkThreads : InSinkCritical(t)}) <= 1
    /\ \A t \in SinkThreads : InSinkCritical(t) => holders = {t}
    /\ \A t \in Syncers : pc[t] = "sy_flush" =>
          \A w \in Writers : pc[w] \notin {"wr_flush", "wr_append", "wr_direct"}

\* the flush of Sync is in progress, of the bytes one Write has cached, while
\* the other Write is parked on the condition
C10_Witness ==
    /\ \E t \in Syncers : pc[t] = "sy_flush" /\ inFlight = {t}
    /\ \E w \in Writers : pc[w] = "L_wait" /\ w \in waiters
    /\ \E w \in Writers : pc[w] = "done"
    /\ buffer # <<>>

-----------------------------------------------------------------------------
(* Properties of SpecNet *)

\* the reconnect goroutines that were started and have not terminated
InFlight == {k \in 1..Len(rpc) : rpc[k] # "exited"}

\* C3: in every reachable state at most one reconnect task exists, that is, has
\* been spawned and has not yet terminated
C3_SingleReconnect == Cardinality(InFlight) <= 1

\* C4: Write calls that run concurrently and all fail on one and the same closed
\* connection start one reconnect task, not one each: no task is started for a
\* connection by a call during which a task was already started for that
\* connection
C4_OneSpawnPerConnection ==
    \A j \in 1..Len(spawnCause) : \A k \in 1..(j - 1) :
        ~(spawnCause[k].conn = spawnCause[j].conn /\ k > spawnCause[j].seen)

-----------------------------------------------------------------------------
(* Properties of SpecSampler *)

\* every call so far was made on a freshly built sampler with first = 100 and
\* thereafter = 100, with the one tracked in-span message, within one tick
SameMessageRun ==
    /\ smpHist.calls >= 1
    /\ smpHist.same
    /\ sampler.first = DefaultFirst
    /\ sampler.thereafter = DefaultThereafter

\* C5: with first = 100 and thereafter = 100 on a fresh sampler, the k-th
\* sequential call for one identical in-span message within one tick returns
\* true iff k <= 100 or (k - 100) mod 100 = 0
C5_ExactSequence ==
    SameMessageRun =>
        LET k == smpHist.calls
        IN sampled.result = (k <= 100 \/ (k - 100) % 100 = 0)

-----------------------------------------------------------------------------
(* Properties of SpecLog *)

\* in the call of t, the k-th hook invocation returned an error
HookFailed(t, k) == k \in 1..Len(calls[t].hooked) /\ calls[t].hooked[k].err # NoError

\* C6: if a hook returns an error for a call, then for that call no later hook
\* is invoked, no exporter is invoked at all, and output() returns exactly that
\* error
C6_HookAbort ==
    \A t \in LogThreads : \A k \in 1..Len(calls[t].hooked) :
        HookFailed(t, k) =>
            /\ k = Len(calls[t].hooked)
            /\ calls[t].exported = <<>>
            /\ calls[t].stage = "returned" => calls[t].result = calls[t].hooked[k].err

\* a call has returned the error of the first of two hooks, with exporters
\* registered
C6_Witness ==
    \E t \in LogThreads :
        /\ calls[t].stage = "returned"
        /\ HookFailed(t, 1)
        /\ calls[t].result = ErrorOf("hook", 0)
        /\ logger.hooks = 2
        /\ logger.exporters > 0

\* C11: Close signals shutdown before it waits and before it closes anything,
\* and when Close has returned no reconnect task is running, also when Write
\* calls that fail with the closed-connection error run concurrently with Close
C11_CloseOrdering ==
    /\ pc[Closer] \in {"cl_wait", "cl_base", "cl_conn", "done"} => ctxDone
    /\ pc[Closer] = "done" => InFlight = {}

\* goroutine t makes the step of line 486 (the inner Write returns) while the
\* syncer is disconnected
DisconnectedWrite(t) == pc[t] = "nw_start" /\ pc'[t] = "nw_check" /\ Disconnected

\* C12 as stated: a Write issued while the syncer is disconnected fails with the
\* underlying error and none of its bytes are kept in the syncer, for every cache
\* capacity
C12_DisconnectedWriteFails ==
    [][DisconnectedWrite(Solo) => (local'[Solo].err = ErrClosed /\ buffer' = buffer)]_vars

\* C12 as amended: a Write issued while the syncer is disconnected fails with the
\* closed-connection error, returns 0 and keeps none of its bytes when there is
\* no cache or the cached length plus its length reaches the capacity; when it
\* fits in the cache's free room it returns its length without error and its
\* bytes are appended to the cache
C12_DisconnectedWrite ==
    [][DisconnectedWrite(Solo) =>
          IF hasBuffer /\ Bytes(buffer) + lastOp'.size < capacity
          THEN /\ local'[Solo].err = None
               /\ lastOp'.n = lastOp'.size
               /\ Bytes(buffer') = Bytes(buffer) + lastOp'.size
               /\ device' = device
          ELSE /\ local'[Solo].err = ErrClosed
               /\ lastOp'.n = 0
               /\ buffer' = buffer
               /\ device' = device]_vars

\* a Write made while the syncer was disconnected has returned without error,
\* its bytes in the cache
C12_Witness ==
    /\ pc[Solo] = "nw_check"
    /\ local[Solo].down
    /\ local[Solo].err = None
    /\ lastOp.op = "write"
    /\ lastOp.n = lastOp.size
    /\ Bytes(buffer) >= lastOp.size

-----------------------------------------------------------------------------
(* Properties of SpecNetFair *)

\* the k-th reconnect goroutine was started and is in its retry loop
Retrying(k) == k <= Len(rpc) /\ rpc[k] \in {"dial", "wait"}

\* the errors a Write call returns are those of its own device write
WriteErrors == {None, ErrClosed, "EIO"}

\* C13: a reconnect task leaves its retry loop only with a connection dialed
\* successfully or after the shutdown signal, no Write returns a dial failure,
\* and once shutdown is signalled every started task eventually terminates
C13_RetryUntilShutdown ==
    /\ [][\A k \in TaskIds :
            (Retrying(k) /\ ~Retrying(k)') => (rpc'[k] = "close_old" \/ ctxDone)]_vars
    /\ [](\A t \in NetWriters : local[t].err \in WriteErrors)
    /\ \A k \in TaskIds :
         (ctxDone /\ k <= Len(rpc)) ~> (k <= Len(rpc) /\ rpc[k] = "exited")

\* after the shutdown signal a task has terminated without ever having
\* reconnected: the flag is still set and the first connection is still s.writer
C13_Witness ==
    \E k \in TaskIds :
        /\ k <= Len(rpc)
        /\ rpc[k] = "exited"
        /\ ctxDone
        /\ disconnected = 1
        /\ writer = 0

-----------------------------------------------------------------------------
(* Further properties of SpecSink *)

\* C14: an error the device returns during Write, Sync or Close is what that
\* call returns; in particular the error of the flush inside Close is the
\* result of Close
C14_DeviceErrorReturned ==
    (lastOp.devCalled /\ lastOp.devErr # None) => lastOp.err = lastOp.devErr

-----------------------------------------------------------------------------
(* Further properties of SpecSampler *)

\* the last Sample call was made on a counter that was saturated (its count
\* exceeded first) at a time at or after the counter's next reset time
ResetOfSaturated ==
    /\ smpHist.calls > 0
    /\ sampled.index > 0
    /\ sampled.before[sampled.index].count > sampler.first
    /\ sampled.before[sampled.index].after <= sampled.clock

\* C15: a Sample call on a saturated counter whose tick has elapsed returns
\* true, moves the next reset time to the entry's time plus tick and leaves the
\* count at 1
C15_SamplerReset ==
    ResetOfSaturated =>
        /\ sampled.result
        /\ counters[sampled.index].after = sampled.clock + sampler.tick
        /\ counters[sampled.index].count = 1

\* a saturated counter was reset at exactly its next reset time
C15_Witness ==
    /\ ResetOfSaturated
    /\ sampled.before[sampled.index].after = sampled.clock
    /\ counters[sampled.index].count = 1

\* the entry's level lies outside the sampler's span, or its message exposes no
\* sample text
NotSampled(e) ==
    \/ e.level \notin sampler.span.Start..sampler.span.End
    \/ e.text = NoText

\* C16: Sample returns true and changes no counter when the entry's level is
\* outside the span or its message has no sample text, however saturated the
\* counters are
C16_SamplerBypass ==
    (smpHist.calls > 0 /\ NotSampled(sampled.entry)) =>
        /\ sampled.result
        /\ counters = sampled.before

\* an entry outside the span was sampled while the counter of its text was
\* saturated
C16_Witness ==
    /\ smpHist.calls > 0
    /\ sampled.entry = [level |-> LevelFatal, text |-> TextA]
    /\ sampled.result
    /\ counters[SampleIndex(TextA) + 1].count > sampler.first

-----------------------------------------------------------------------------
(* Further properties of SpecLog *)

\* goroutine t has made a call whose record is still kept
Called(t) == calls[t].stage # "idle"

\* C17: a call whose level is below the logger's minimum returns success at
\* once, with no sampler, hook or exporter invoked and no entry acquired; a call
\* at or above the minimum is not gated (with exporters registered it acquires
\* an entry)
C17_LevelGate ==
    \A t \in LogThreads :
        Called(t) =>
            /\ calls[t].level < logger.level =>
                   /\ calls[t].stage = "returned"
                   /\ calls[t].result = NoError
                   /\ ~calls[t].sampled
                   /\ calls[t].hooked = <<>>
                   /\ calls[t].exported = <<>>
                   /\ calls[t].acquired = 0
            /\ (calls[t].level >= logger.level /\ logger.exporters > 0) =>
                   calls[t].acquired = 1

\* with a sampler, hooks and exporters registered, one call below the minimum
\* level has returned and one call at the minimum level has gone through
C17_Witness ==
    /\ logger.sampler /\ logger.hooks > 0 /\ logger.exporters > 0
    /\ logger.level = LevelInfo
    /\ Called("g1") /\ calls["g1"].level = LevelDebug /\ calls["g1"].stage = "returned"
    /\ Called("g2") /\ calls["g2"].level >= LevelInfo /\ calls["g2"].exported # <<>>

\* in the call of t, the k-th exporter invocation returned an error
ExportFailed(t, k) ==
    k \in 1..Len(calls[t].exported) /\ calls[t].exported[k].err # NoError

\* C18: if an exporter returns an error, no later exporter is invoked for that
\* call, output() returns exactly that error, and what the earlier exporters
\* handed to their sinks stays there
C18_ExportAbort ==
    /\ [](\A t \in LogThreads : \A k \in 1..Len(calls[t].exported) :
            ExportFailed(t, k) =>
                /\ k = Len(calls[t].exported)
                /\ calls[t].stage = "returned" => calls[t].result = calls[t].exported[k].err
                /\ \A j \in 1..(k - 1) : sinks[j] >= 1)
    /\ [][\A j \in 1..logger.exporters : sinks'[j] >= sinks[j]]_vars

\* one call has returned the error of the first of two exporters, another the
\* error of the second after the first exporter had exported its entry
C18_Witness ==
    /\ logger.exporters = 2
    /\ calls["g1"].stage = "returned"
    /\ ExportFailed("g1", 1)
    /\ calls["g1"].result = ErrorOf("exporter", 0)
    /\ calls["g2"].stage = "returned"
    /\ ExportFailed("g2", 2)
    /\ calls["g2"].result = ErrorOf("exporter", 1)
    /\ sinks[1] = 1

\* C19: within one call every hook invocation is over before the first exporter
\* invocation, hooks are invoked in registration order and exporters in
\* registration order
C19_PipelineOrder ==
    \A t \in LogThreads :
        /\ \A k \in 1..Len(calls[t].hooked) : calls[t].hooked[k].index = k - 1
        /\ \A k \in 1..Len(calls[t].exported) : calls[t].exported[k].index = k - 1
        /\ calls[t].exported # <<>> =>
               /\ Len(calls[t].hooked) = logger.hooks
               /\ pc[t] # "out_hooks"

\* a call has invoked two hooks and then two exporters
C19_Witness ==
    \E t \in LogThreads :
        /\ Len(calls[t].hooked) = 2
        /\ Len(calls[t].exported) = 2

\* C20: if the sampler returns false for the entry, output() returns nil,
\* invokes no hook and no exporter, does not capture the source location and
\* gives the entry back to the pool
C20_SamplerDiscard ==
    \A t \in LogThreads :
        (calls[t].sampled /\ ~calls[t].keep) =>
            /\ calls[t].hooked = <<>>
            /\ calls[t].exported = <<>>
            /\ ~calls[t].source
            /\ calls[t].stage = "returned" =>
                   /\ calls[t].result = NoError
                   /\ calls[t].released = 1
                   /\ ~calls[t].held

\* a call discarded by the sampler has returned, on a logger that has hooks and
\* exporters and captures source locations
C20_Witness ==
    \E t \in LogThreads :
        /\ calls[t].sampled /\ ~calls[t].keep
        /\ calls[t].stage = "returned"
        /\ logger.hooks > 0 /\ logger.exporters > 0 /\ logger.addSource

\* C21: a logger without exporters returns nil from every call at once, whatever
\* the level: no entry is acquired, the sampler is not consulted and no hook is
\* invoked
C21_NoExporters ==
    logger.exporters = 0 =>
        /\ pool.acquired = 0
        /\ \A t \in LogThreads :
              Called(t) =>
                  /\ calls[t].stage = "returned"
                  /\ calls[t].result = NoError
                  /\ calls[t].acquired = 0
                  /\ ~calls[t].sampled
                  /\ calls[t].hooked = <<>>

\* a logger with a sampler and hooks but no exporters has returned from a call
\* of a level its minimum level admits
C21_Witness ==
    /\ logger.exporters = 0 /\ logger.sampler /\ logger.hooks > 0
    /\ \E t \in LogThreads :
          /\ calls[t].stage = "returned"
          /\ calls[t].level >= logger.level

-----------------------------------------------------------------------------
(* Further properties of SpecSink *)

\* C22: a built syncer has a cache exactly if its mutex is enabled and the
\* configured capacity is greater than 0; with a cache the stored capacity is at
\* least 1024 (a configured 1..1023 is stored as 1024, 0 as 0); whether there is
\* a cache never changes, whatever Write, Sync and failed flushes do
C22_SinkConstruction ==
    /\ [](hasBuffer <=> (~option.disableMutex /\ option.cacheCapacity > 0))
    /\ [](hasBuffer => capacity >= 1024)
    /\ []((~option.disableMutex /\ option.cacheCapacity \in 1..1023) => capacity = 1024)
    /\ [](option.cacheCapacity = 0 => (capacity = 0 /\ ~hasBuffer))
    /\ [][hasBuffer' = hasBuffer /\ capacity' = capacity]_vars

\* a syncer configured with a capacity of 1 has a cache of 1024 bytes after a
\* flush of it failed
C22_Witness ==
    /\ option.cacheCapacity = 1 /\ ~option.disableMutex
    /\ hasBuffer /\ capacity = 1024
    /\ devErrSeen
    /\ ops >= 2

-----------------------------------------------------------------------------
(* Properties of SpecSamplerAny *)

\* C23: for every option value Build accepts and every entry, Sample returns a
\* boolean decision: no call panics
C23_SamplerTotal == smpHist.calls > 0 => ~sampled.panic

-----------------------------------------------------------------------------
(* Properties of SpecLog: calls after a failed call *)

\* C24: a call that returns the error of a hook or exporter leaves the logger's
\* configuration as it was, and a call made after it runs the whole pipeline:
\* it is gated by nothing but the level and the exporter list, and when no hook
\* or exporter of its own fails it invokes every hook and then every exporter
C24_FailureLocal ==
    /\ [][logger' = logger]_vars
    /\ [](\A t \in LogThreads :
            (Called(t) /\ calls[t].prior /\ calls[t].level >= logger.level
                       /\ logger.exporters > 0) =>
                /\ calls[t].acquired = 1
                /\ (/\ calls[t].stage = "returned"
                    /\ calls[t].result = NoError
                    /\ ~(calls[t].sampled /\ ~calls[t].keep)) =>
                       /\ Len(calls[t].hooked) = logger.hooks
                       /\ Len(calls[t].exported) = logger.exporters)

\* a call made after another call had returned an error has invoked both hooks
\* and both exporters and returned nil
C24_Witness ==
    \E t \in LogThreads :
        /\ calls[t].prior
        /\ calls[t].stage = "returned" /\ calls[t].result = NoError
        /\ Len(calls[t].hooked) = 2 /\ Len(calls[t].exported) = 2

-----------------------------------------------------------------------------
(* Properties of SpecStd *)

\* C25: in a logger built by StandardOption.Build an entry that goes through
\* the exporters without error is written to exactly one of the two syncers:
\* DEBUG, INFO and WARNING only to the first (Outputting), ERROR and FATAL only
\* to the second (ErrorOutputting)
C25_LevelRouting ==
    LET c == calls[StdCaller]
        wrote(j) == \E k \in 1..Len(c.exported) :
                       c.exported[k].index = j /\ c.exported[k].wrote
    IN /\ wrote(0) => c.level \in {LevelDebug, LevelInfo, LevelWarning}
       /\ wrote(1) => c.level \in {LevelError, LevelFatal}
       /\ (c.stage = "returned" /\ c.result = NoError /\ Len(c.exported) = 2) =>
              /\ wrote(0) <=> c.level \in {LevelDebug, LevelInfo, LevelWarning}
              /\ wrote(1) <=> c.level \in {LevelError, LevelFatal}
              /\ wrote(0) # wrote(1)

\* a WARNING entry has gone through both exporters and was written to the
\* first syncer only
C25_Witness ==
    LET c == calls[StdCaller]
    IN /\ c.stage = "returned" /\ c.result = NoError /\ c.level = LevelWarning
       /\ Len(c.exported) = 2
       /\ c.exported[1].wrote /\ ~c.exported[2].wrote
       /\ sinks = <<1, 0>>

\* C26: when StandardLogger.Close has returned, Close has been invoked on every
\* exporter, whichever of the exporters' Close calls failed
C26_CloseAll ==
    pc[Closer] = "sc_done" => local[Closer].closed = 0..(logger.exporters - 1)

\* the larger of two durations
Longer(a, b) == IF a < b THEN b ELSE a

\* C27: an interval of 0 starts no flush goroutine; for every other interval two
\* successive automatic Sync calls are max(interval, 100 ms) apart
C27_FlushInterval ==
    /\ logger.interval = 0 => (pc[Flusher] = "fh_none" /\ wgCount = 0)
    /\ logger.interval # 0 =>
          \A k \in 1..(Len(local[Flusher].times) - 1) :
              local[Flusher].times[k + 1] - local[Flusher].times[k]
                  = Longer(logger.interval, MinIntervalDoc)

-----------------------------------------------------------------------------
(* Properties of SpecLevel *)

\* C28: for each of the five levels L, ParseLevel(L.String()) returns L and no
\* error; ParseLevel of a name that is, case ignored, none of the five names
\* returns the invalid-level error
C28_LevelRoundTrip ==
    LET p == local[Parser]
    IN pc[Parser] = "lv_parsed" =>
          /\ (p.formatted /\ p.level \in Levels) =>
                 (p.parsed.level = p.level /\ p.parsed.err = None)
          /\ ToLower(p.name) \notin {NameDebug, NameInfo, NameWarning, NameError, NameFatal} =>
                 p.parsed.err = ErrInvalidLevel

-----------------------------------------------------------------------------
(* Properties of SpecNet: who changes the cache and the connection *)

\* the step is the body of StandardSyncer.Write (part_000 lines 163-194) or of
\* Sync (lines 204-236), which run between Lock and Unlock of the syncer's mutex
UnderMutex ==
    \/ \E t \in NetWriters : pc[t] = "nw_start" /\ pc'[t] = "nw_check"
    \/ pc[Closer] = "cl_base" /\ pc'[Closer] = "cl_conn"

\* C29: the cache and the connection s.writer of a syncer whose mutex is enabled
\* are changed only by a goroutine that holds the mutex, the assignment of the
\* new connection by the reconnect goroutine included
C29_MutatedUnderLock ==
    [][(writer' # writer \/ buffer' # buffer) => UnderMutex]_vars

-----------------------------------------------------------------------------
(* Properties of SpecSamplerConc *)

\* C30: a reset step of Sample made with a loaded count c > 1 never leaves the
\* counter below 1 and never wraps it around the unsigned 64-bit range, however
\* the resets and increments of the other goroutines interleave with it
C30_ResetsBenign ==
    [][\A t \in SmpThreads :
         (pc[t] = "sm_reset" /\ pc'[t] = "sm_idle" /\ UGt(local[t].count, 1))
         => counters'[local[t].index].count >= 1]_vars

-----------------------------------------------------------------------------
(* Properties of SpecLockFair *)

\* goroutine t is inside Lock()
InLock(t) == pc[t] \in {"L_cas", "L_condlock", "L_load", "L_wait", "L_condunlock"}

\* the holder has released by UnlockAndResume (line 107) and its Broadcast (line
\* 108) is the next thing it does
BroadcastPending == \E u \in Threads : pc[u] = "UR_broadcast"

\* C31: no lost wake-up. A goroutine is parked in Lock() only while the lock is
\* Suspended or the Broadcast of the UnlockAndResume that released it is still to
\* come; every parked goroutine is eventually woken; and whenever some goroutine
\* contends in Lock(), some goroutine eventually holds the lock.
C31_NoLostWakeup ==
    /\ [](waiters # {} => (status = Suspended \/ BroadcastPending))
    /\ \A t \in Workers : (t \in waiters) ~> (t \notin waiters /\ status # Suspended)
    /\ (\E t \in Workers : InLock(t)) ~> (\E t \in Workers : InCritical(t))

\* a worker that parked against the suspender has been woken by the Broadcast
\* of its UnlockAndResume and has not run yet
C31_Witness ==
    \E t \in Workers :
        /\ pc[t] = "L_wait"
        /\ t \notin waiters
        /\ status = Unlocked
        /\ pc[Suspender] = "UR_condunlock"

-----------------------------------------------------------------------------
(* Properties of SpecNetSolo: the disconnected flag *)

\* the goroutines that call Write on the network syncer
NetCallers == NetWriters \cup {Solo}

\* goroutine t takes a step of NetworkSyncer.Write from the statement at
Leaves(t, at) == pc[t] = at /\ pc'[t] # at

\* reconnect goroutine k takes the step at
TaskLeaves(k, at) == k <= Len(rpc) /\ rpc[k] = at /\ rpc'[k] # at

\* C32: the disconnected flag goes from 0 to 1 only in a Write whose error is
\* the closed-connection error, and the Write that makes this transition, and
\* no other, starts one reconnect goroutine; the flag goes from 1 to 0 only in
\* the reconnect goroutine, after its dial succeeded and it assigned the dialed
\* connection; a Write with another error or none, the flush of Close, and a
\* reconnect goroutine that gives up leave the flag alone and start nothing
C32_FlagProtocol ==
    [][/\ (disconnected = 0 /\ disconnected' = 1) =>
             \E t \in NetCallers : Leaves(t, "nw_check") /\ local[t].err = ErrClosed
       /\ \A t \in NetCallers :
             /\ (pc[t] # "nw_add" /\ pc'[t] = "nw_add") =>
                   (Leaves(t, "nw_check") /\ disconnected = 0 /\ disconnected' = 1)
             /\ Leaves(t, "nw_add") => pc'[t] = "nw_go"
             /\ Leaves(t, "nw_go") => Len(rpc') = Len(rpc) + 1
             /\ (Leaves(t, "nw_check") /\ local[t].err # ErrClosed) =>
                   (disconnected' = disconnected /\ pc'[t] = "nw_start")
       /\ Len(rpc') # Len(rpc) =>
             (Len(rpc') = Len(rpc) + 1 /\ \E t \in NetCallers : Leaves(t, "nw_go"))
       /\ (disconnected = 1 /\ disconnected' = 0) =>
             \E k \in TaskIds : TaskLeaves(k, "cas") /\ writer = rconn[k] /\ rconn[k] > 0
       /\ \A k \in TaskIds :
             ((TaskLeaves(k, "dial") \/ TaskLeaves(k, "wait")) /\ rpc'[k] = "deferred") =>
                 (disconnected' = disconnected /\ Len(rpc') = Len(rpc))
       /\ pc'[Closer] # pc[Closer] =>
             (disconnected' = disconnected /\ Len(rpc') = Len(rpc))]_vars

\* the reconnect goroutine started by a Write has reconnected and reset the
\* flag, and a later Write failed with another error and started nothing
C32_Witness ==
    /\ disconnected = 0
    /\ Len(rpc) = 1
    /\ rpc[1] = "exited"
    /\ writer = rconn[1]
    /\ pc[Solo] = "nw_start"
    /\ local[Solo].err = "EIO"
    /\ local[Solo].conn = writer

-----------------------------------------------------------------------------
(* Properties of SpecSink: the byte stream *)

\* C33: conservation of the byte stream of a syncer with a cache. In every
\* state the bytes the device has accepted followed by the bytes in the cache
\* are the bytes of the Write calls that returned success, in the order of
\* these calls: none is lost, doubled or out of place, whatever the device
\* returned.
C33_Conservation ==
    hasBuffer =>
        (Cat(device, buffer) = accepted /\ Bytes(device) + Bytes(buffer) = Bytes(accepted))

\* after a flush that failed with part of the cache accepted, a Sync failed
\* having written nothing: the device holds the first bytes of the first Write and
\* the cache the rest
C33_Witness ==
    /\ hasBuffer
    /\ lastOp.op = "sync"
    /\ lastOp.devCalled
    /\ lastOp.devErr # None
    /\ lastOp.devSize = 0
    /\ device # <<>>
    /\ buffer # <<>>
    /\ Head(buffer).id = device[Len(device)].id
    /\ Head(buffer).off > 0

-----------------------------------------------------------------------------
(* Properties of SpecLock: where a caller of Lock is parked *)

\* C34, as stated: a goroutine is parked on the condition only while the lock
\* is Suspended, never opposite a Locked holder and never while it is Unlocked
C34_ParkedOnlySuspended == waiters # {} => status = Suspended

\* C34: a goroutine parks only at a moment at which the lock is Suspended; while
\* it is parked the lock is Suspended, or UnlockAndResume has released the lock
\* and is about to Broadcast (in that window the lock may be Unlocked or Locked
\* by another caller); an Unlock() never happens while a goroutine is parked
\* without that Broadcast being pending, so it leaves no caller parked
C34_ParkOnlySuspended ==
    /\ [][\A t \in Threads :
            (t \notin waiters /\ t \in waiters') =>
                (status = Suspended /\ status' = Suspended /\ conditionL = t)]_vars
    /\ [](waiters # {} => (status = Suspended \/ BroadcastPending))
    /\ [][(status = Locked /\ status' = Unlocked /\ waiters # {}) => BroadcastPending']_vars

\* a worker is still parked after UnlockAndResume released the lock, and the
\* other worker has taken the lock by Lock() before the Broadcast
C34_Witness ==
    \E t \in Workers, u \in Workers :
        /\ t # u
        /\ t \in waiters
        /\ status = Locked
        /\ holders = {u}
        /\ InCritical(u)
        /\ pc[Suspender] = "UR_broadcast"

-----------------------------------------------------------------------------
(* Properties of SpecLog: the entry pool *)

\* goroutine t is in output() between pool.entry.New() and pool.entry.Free(entry)
Holding(t) == pc[t] \in {"out_sample", "out_hooks", "out_exports", "out_free"}

\* C35: balance of the entry pool. A call of output() that passes the level gate
\* and the check for exporters takes one entry and has given it back exactly
\* once when it returns, whether the sampler discarded the entry, a hook or an
\* exporter failed, or all went well; a call that returns early takes none; and
\* the entries outstanding are always as many as the calls between New and Free.
C35_PoolBalance ==
    /\ pool.acquired - pool.released = Cardinality({t \in LogThreads : Holding(t)})
    /\ \A t \in LogThreads :
          /\ calls[t].held <=> Holding(t)
          /\ Holding(t) => (calls[t].acquired = 1 /\ calls[t].released = 0)
          /\ calls[t].stage = "returned" =>
                /\ calls[t].acquired = calls[t].released
                /\ calls[t].acquired =
                      (IF logger.level <= calls[t].level /\ logger.exporters > 0 THEN 1 ELSE 0)

\* one call has returned the error of an exporter with its entry given back
\* while the other still holds its entry in the loop over the hooks
C35_Witness ==
    \E t \in LogThreads, u \in LogThreads :
        /\ calls[t].stage = "returned"
        /\ calls[t].result = ErrorOf("exporter", 0)
        /\ calls[t].released = 1
        /\ pc[u] = "out_hooks"
        /\ calls[u].held
        /\ pool.acquired = 2
        /\ pool.released = 1

-----------------------------------------------------------------------------
(* Properties of SpecSinkConc: the release of the mutex *)

\* goroutine t is not inside Write or Sync
Outside(t) == pc[t] \in {"wr_start", "sy_start", "done"}

\* C36: Write and Sync release the mutex on every return, in the mode they
\* took it. A Write holds the mutex Locked from the return of Lock() to its
\* Unlock(), which it reaches on every path; a Sync holds it Suspended from the
\* return of LockAndSuspend() to its UnlockAndResume(); a goroutine that has
\* returned holds nothing, and when no call is in progress the mutex is Unlocked,
\* whatever the device returned.
C36_ReleaseOnReturn ==
    /\ [](\A t \in SinkThreads :
            /\ Outside(t) => t \notin holders
            /\ (t \in holders /\ t \in Writers) => status = Locked
            /\ (t \in holders /\ t \in Syncers) => status = Suspended)
    /\ []((\A t \in SinkThreads : Outside(t)) => (status = Unlocked /\ waiters = {}))
    /\ [][\A t \in Writers :
            (pc[t] # "done" /\ pc'[t] = "done") =>
                (pc[t] = "wr_unlock" /\ status = Locked /\ holders = {t}
                 /\ status' = Unlocked)]_vars
    /\ [][\A t \in Syncers :
            (pc[t] # "done" /\ pc'[t] = "done") =>
                (pc[t] = "UR_condunlock" /\ t \notin holders)]_vars
    /\ [][\A t \in Syncers :
            (pc[t] = "UR_cas" /\ pc'[t] # "UR_cas") =>
                (status = Suspended /\ holders = {t} /\ status' = Unlocked)]_vars

\* every call has returned, the flush of one of them failed and left its
\* bytes in the cache, and the mutex is Unlocked
C36_Witness ==
    /\ \A t \in SinkThreads : pc[t] = "done"
    /\ devErrSeen
    /\ hasBuffer
    /\ buffer # <<>>
    /\ status = Unlocked
    /\ holders = {}

-----------------------------------------------------------------------------
(* Further properties of SpecSamplerConc *)

\* the calls that return true among calls with the post-increment values
\* c0 + 1 .. c0 + n when they are made one after the other
KeptInOrder(c0, n, first, thereafter) ==
    Cardinality({c \in (c0 + 1)..(c0 + n) : c <= first \/ (c - first) % thereafter = 0})

\* C37: independence of the interleaving within a tick. The calls that took the
\* increment since the last reset step, n of them from a count c0, obtained the
\* values c0 + 1 .. c0 + n, each once, however they interleaved, and as many of
\* them returned true as when the same calls are made one after the other.
C37_IncrementsDistinct ==
    LET n == Len(smpHist.adds)
    IN smpHist.base >= 0 =>
         /\ {smpHist.adds[i] : i \in 1..n} = (smpHist.base + 1)..(smpHist.base + n)
         /\ counters[1].count = smpHist.base + n
         /\ smpHist.kept = KeptInOrder(smpHist.base, n, sampler.first, sampler.thereafter)

\* three calls have taken the increment since the last reset, one of them
\* after another call's increment landed between its load of the count and its
\* own increment, and the third value was discarded
C37_Witness ==
    /\ smpHist.raced
    /\ smpHist.base = 0
    /\ Len(smpHist.adds) = 3
    /\ smpHist.kept = 2
    /\ ~sampled.result

-----------------------------------------------------------------------------
(* Properties of SpecNetSolo: the connections a reconnection leaves *)

\* the number of times the syncer has closed connection c
ClosesOf(c) == Cardinality({i \in 1..Len(closeLog) : closeLog[i].conn = c})

\* connection c was closed by a reconnect goroutine
ClosedByReconnect(c) ==
    \E i \in 1..Len(closeLog) : closeLog[i].conn = c /\ closeLog[i].by = "reconnect"

\* C38: completion of a reconnection. When a reconnect goroutine resets the
\* flag it has closed the connection it replaces and s.writer is the connection
\* it dialed; so whenever the flag is 0 after a reconnection s.writer is the
\* connection dialed last and no reconnection has closed it (only Close() closes
\* the connection in use), every connection that was replaced has been closed
\* once, and no connection is ever closed twice.
C38_ReconnectCompletion ==
    /\ [][(disconnected = 1 /\ disconnected' = 0) =>
             \E k \in TaskIds :
                 /\ TaskLeaves(k, "cas")
                 /\ writer = rconn[k]
                 /\ closeLog # <<>>
                 /\ closeLog[Len(closeLog)] = [conn |-> writer - 1, by |-> "reconnect"]]_vars
    /\ []((disconnected = 0 /\ writer > 0) =>
             /\ writer = nextConn - 1
             /\ ~ClosedByReconnect(writer)
             /\ \A c \in 0..(writer - 1) : ClosesOf(c) = 1)
    /\ [](\A c \in 0..nextConn : ClosesOf(c) <= 1)

\* two reconnections have completed: the connections 0 and 1 were closed by
\* them, connection 2 is in use and the flag is 0
C38_Witness ==
    /\ disconnected = 0
    /\ writer = 2
    /\ Len(closeLog) = 2
    /\ ClosedByReconnect(0)
    /\ ClosedByReconnect(1)
    /\ writer \notin deadConns
    /\ ~closed

-----------------------------------------------------------------------------
(* Properties of SpecStdFair *)

\* the flush goroutine has returned, or was never started
FlushOver == pc[Flusher] \in {"fh_exited", "fh_none"}

\* Close is in its loop over the exporters or has returned
ClosingExporters == pc[Closer] \in {"sc_loop", "sc_done"}

\* C39: order of the shutdown. Close() cancels the context and waits for the
\* flush goroutine to return before it closes the first exporter, so the flush
\* goroutine calls Sync only while no exporter's Close has been called; and
\* Close(), once called, returns.
C39_ShutdownOrder ==
    /\ [](ClosingExporters => (ctxDone /\ FlushOver /\ wgCount = 0))
    /\ [](local[Closer].closed # {} => ClosingExporters)
    /\ [][(pc[Flusher] = "fh_sync" /\ pc'[Flusher] # "fh_sync") =>
             (~ClosingExporters /\ local[Closer].closed = {})]_vars
    /\ [][(pc[Closer] = "sc_wait" /\ pc'[Closer] # "sc_wait") => FlushOver]_vars
    /\ (pc[Closer] = "sc_wait") ~> (pc[Closer] = "sc_done")

\* Close has returned after closing both exporters; the flush goroutine had
\* made an automatic Sync and returned on the cancellation
C39_Witness ==
    /\ pc[Closer] = "sc_done"
    /\ local[Closer].closed = {0, 1}
    /\ local[Closer].result = NoError
    /\ pc[Flusher] = "fh_exited"
    /\ Len(local[Flusher].times) >= 1
    /\ ctxDone

-----------------------------------------------------------------------------
(* Properties of SpecLock: how Lock waits *)

\* goroutine t makes an attempt of Lock() that fails
FailedAttempt(t) ==
    /\ pc[t] = "L_cas"
    /\ status # Unlocked
    /\ (count'[t] # count[t] \/ pc'[t] # pc[t])

\* after its failed attempt t calls runtime.Gosched() and continues the loop
\* (lines 71-72)
YieldsAndRetries(t) == pc'[t] = "L_cas" /\ count'[t] = NextCount(count[t])

\* C40: a caller of Lock() yields the scheduler only after every 100th failed
\* attempt and retries at once after the others; and after a failed attempt
\* made while the lock is Suspended it goes on to park instead of making
\* further attempts
C40_WaitingDiscipline ==
    [][\A t \in Threads :
         FailedAttempt(t) =>
             /\ YieldsAndRetries(t) => count[t] % YieldPeriod = 0
             /\ status = Suspended => pc'[t] = "L_condlock"]_vars

====
